---- MODULE Spec2Model ----
(***************************************************************************)
(* Model of the triangular-arbitrage runner: the seqlock order book, the   *)
(* three-leg executor with rollback and audit log, and the two-stage       *)
(* evaluator.  Three specifications share the module:                      *)
(*   SpecOB    order book: one ingest thread (update) and the main thread  *)
(*             (get / consumeUpdates) interleaved at memory-access level   *)
(*   SpecExec  executor: Runner::executeArbitrage against the broker       *)
(*   SpecEval  evaluator: onMarketDataUpdate over a pool of cycles         *)
(***************************************************************************)
EXTENDS Integers, Sequences, FiniteSets, TLC

(***************************************************************************)
(* Bounds of the model                                                     *)
(***************************************************************************)
MaxSym == 2
MaxPx == 2
MaxUpdates == 2
MaxSignals == 2
MaxPrice == 2
MaxPushes == 2
MaxStake == 10
ReqQty == 100

VARIABLES
    \* ---- OrderBook (AtomicPriceSlot array and update signalling)
    seqn, bidv, askv, updatedBits, hasUpdates, hasUpdatesAtomic,
    \* ---- ingest thread inside update(id, bid, ask)
    wpc, wid, wbid, wask, wseq, wTodo, wcount,
    \* ---- main thread inside get(id) / consumeUpdates()
    rpc, rid, rseq1, rseq2, rres, rTodo, lastBits,
    \* ---- history: the pair each write issued to a slot leaves in it
    hist,
    \* ---- Broker: order id counter, mode, entry of the latest order
    orderIdCounter, liveMode, ord,
    \* ---- TradePersistence: sequence counter and the rows written
    sequenceCounter, audit,
    \* ---- Runner::executeArbitrage / handleExecutionFailure / executeRollback
    epc, phase, sig, parentTradeId, legIndex, executedOrders, status,
    rbPos, retryCount, rollbackSucceeded, allRollbacksSucceeded,
    \* ---- what the run left behind: orders submitted, result logged,
    \*      balance fetches of the sequence, what the wait of each leg
    \*      returned, and for the rollback whether an order of the current /
    \*      of every earlier executed order ended FILLED with at least 99%
    sent, outcome, fetches, legRes, curGood, allGood, nSignals,
    \* ---- evaluator: the cycles, the fee percentage and the filters of
    \*      the symbols, the quotes in the book, the last call's result
    pool, feePct, filters, quotes, res,
    \* ---- SymbolFilters rounding exercised directly: the last call made
    rnd,
    \* ---- SymbolRegistry: the two containers, the last call made on it,
    \*      and for the history the first id each string was given and the
    \*      first string each id was given to
    symbolToId, idToSymbol, rgRes, firstId, firstOwner, nClears,
    \* ---- TriangularArbitrage route discovery: the exchange's symbols, the
    \*      starting asset, the cycles computed
    symbolsList, startingAsset, stratPaths,
    \* ---- main thread inside waitForUpdates / waitForUpdatesWithTimeout /
    \*      waitForUpdatesSpin: where it is, whether its wait is timed, the
    \*      spin counter, the bitmap the last call returned
    cpc, ctimed, spins, received,
    \* ---- Runner: where initialize() / run() stand, the configured polling
    \*      mode, the shutdown flag, the balance of the starting asset, the
    \*      number of updates handed to the strategy
    runpc, pollingMode, shutdownRequested, balance, handled,
    \* ---- CoalescingBuffer: the map, the flag, the holder of the mutex;
    \*      the producer inside push(data), the consumer inside a drain,
    \*      what the last drain returned; for the history the updates whose
    \*      push has stored since the last drain emptied the map
    pending_, hasUpdate_, mutex_, ppc, dpc, drained, pushed,
    \* ---- for the history of the reader: the pair the last completed
    \*      get(id) of each slot returned; of the consumer: the update()
    \*      call (by its number) that last turned each bit of the bitmap from
    \*      clear to set, and the same for the bitmap consumeUpdates() took
    observed, bitBy, gotBy,
    \* ---- Feeder, snapshot barrier: the two sets; the thread inside
    \*      Runner::initialize() and what waitForAllSnapshots returned to it,
    \*      whether its timeout ran out; the FIX thread inside
    \*      onMessage(MarketDataSnapshot): its symbol, and the number of
    \*      update() calls made when it was entered
    expectedSymbols_, receivedSnapshots_, npc, success, elapsed,
    hpc, hsym, hmark

obVars == <<seqn, bidv, askv, updatedBits, hasUpdates, hasUpdatesAtomic,
            wpc, wid, wbid, wask, wseq, wTodo, wcount,
            rpc, rid, rseq1, rseq2, rres, rTodo, lastBits, hist>>

exVars == <<orderIdCounter, liveMode, ord, sequenceCounter, audit,
            epc, phase, sig, parentTradeId, legIndex, executedOrders, status,
            rbPos, retryCount, rollbackSucceeded,
            allRollbacksSucceeded, sent, outcome, fetches, legRes,
            curGood, allGood, nSignals>>

evVars == <<pool, feePct, filters, quotes, res>>

\* ---- library components exercised on their own
rdVars == <<rnd>>

rgVars == <<symbolToId, idToSymbol, rgRes, firstId, firstOwner, nClears>>

cyVars == <<symbolsList, startingAsset, stratPaths>>

wtVars == <<cpc, ctimed, spins, received>>

rnVars == <<runpc, pollingMode, shutdownRequested, balance, handled>>

\* ---- components no other component reads or writes
cbVars == <<pending_, hasUpdate_, mutex_, ppc, dpc, drained, pushed>>

\* ---- the history of the reader
gtVars == <<observed, bitBy, gotBy>>

\* the components of auxVars a buffer action, a get() leaves alone
fdVars == <<expectedSymbols_, receivedSnapshots_, npc, success, elapsed,
            hpc, hsym, hmark>>

cbRest == <<gtVars, fdVars>>

gtRest == <<cbVars, fdVars>>

fdRest == <<cbVars, gtVars>>

auxVars == <<cbVars, gtVars, fdVars>>

libVars == <<rdVars, rgVars, cyVars, wtVars, rnVars, auxVars>>

vars == <<obVars, exVars, evVars, libVars>>

(***************************************************************************)
(* Order book                                                              *)
(***************************************************************************)
SymIds == 0 .. (MaxSym - 1)
Px == 0 .. MaxPx
Fields == {"bid", "ask"}
\* an uninitialised local uint64_t
Uninit == -1

InitOrderBook ==
    /\ seqn = [i \in SymIds |-> 0]
    /\ bidv = [i \in SymIds |-> 0]
    /\ askv = [i \in SymIds |-> 0]
    /\ updatedBits = {}
    /\ hasUpdates = FALSE
    /\ hasUpdatesAtomic = FALSE
    /\ wpc = "idle" /\ wid = 0 /\ wbid = 0 /\ wask = 0 /\ wseq = 0
    /\ wTodo = {} /\ wcount = 0
    /\ rpc = "idle" /\ rid = 0 /\ rseq1 = Uninit /\ rseq2 = Uninit
    /\ rres = [bid |-> 0, ask |-> 0] /\ rTodo = {} /\ lastBits = {}
    /\ hist = [i \in SymIds |-> {<<0, 0>>}]

\* update(): the early return on (0,0), else the relaxed load of the sequence
UpdateCall(id, bid, ask) ==
    /\ wpc = "idle"
    /\ wcount < MaxUpdates
    /\ wcount' = wcount + 1
    /\ IF bid = 0 /\ ask = 0
       THEN UNCHANGED <<wpc, wid, wbid, wask, wseq, wTodo>>
       ELSE /\ wpc' = "storeOdd"
            /\ wid' = id /\ wbid' = bid /\ wask' = ask
            /\ wseq' = seqn[id]
            /\ wTodo' = {}
    /\ UNCHANGED <<seqn, bidv, askv, updatedBits, hasUpdates,
                   hasUpdatesAtomic, rpc, rid, rseq1, rseq2, rres, rTodo,
                   lastBits, hist, exVars, evVars, libVars>>

\* the pair slot id holds once update(id, bid, ask) has written its non-zero
\* components (partial-update rule)
PairAfter(id, bid, ask) ==
    << IF bid > 0 THEN bid ELSE bidv[id], IF ask > 0 THEN ask ELSE askv[id] >>

\* an update that stores both components whatever their value
WrittenFields_all(bid, ask) == Fields

\* the components update() stores: `if (bid > 0.0)`, `if (ask > 0.0)`
WrittenFields(bid, ask) ==
    {f \in Fields : IF f = "bid" THEN bid > 0 ELSE ask > 0}

\* slot.sequence.store(seq + 1, release); hist gains the pair this write leaves
UpdateStoreOdd ==
    /\ wpc = "storeOdd"
    /\ seqn' = [seqn EXCEPT ![wid] = wseq + 1]
    /\ wTodo' = WrittenFields(wbid, wask)
    /\ wpc' = "write"
    /\ hist' = [hist EXCEPT ![wid] = @ \cup {PairAfter(wid, wbid, wask)}]
    /\ UNCHANGED <<bidv, askv, updatedBits, hasUpdates, hasUpdatesAtomic, wid,
                   wbid, wask, wseq, wcount, rpc, rid, rseq1, rseq2, rres,
                   rTodo, lastBits, exVars, evVars, libVars>>

\* the plain stores of the non-zero components (either order)
UpdateWrite(f) ==
    /\ wpc = "write"
    /\ f \in wTodo
    /\ wTodo' = wTodo \ {f}
    /\ IF f = "bid"
       THEN bidv' = [bidv EXCEPT ![wid] = wbid] /\ UNCHANGED askv
       ELSE askv' = [askv EXCEPT ![wid] = wask] /\ UNCHANGED bidv
    /\ UNCHANGED <<seqn, updatedBits, hasUpdates, hasUpdatesAtomic, wpc, wid,
                   wbid, wask, wseq, wcount, rpc, rid, rseq1, rseq2, rres,
                   rTodo, lastBits, hist, exVars, evVars, libVars>>

\* a second store that writes seq + 1 once more
UpdateStoreEven_again ==
    /\ wpc = "write"
    /\ wTodo = {}
    /\ seqn' = [seqn EXCEPT ![wid] = wseq + 1]
    /\ wpc' = "flag"
    /\ UNCHANGED <<bidv, askv, updatedBits, hasUpdates, hasUpdatesAtomic, wid,
                   wbid, wask, wseq, wTodo, wcount, rpc, rid, rseq1, rseq2,
                   rres, rTodo, lastBits, hist, exVars, evVars, libVars>>

\* slot.sequence.store(seq + 2, release): the write is complete
UpdateStoreEven ==
    /\ wpc = "write"
    /\ wTodo = {}
    /\ seqn' = [seqn EXCEPT ![wid] = wseq + 2]
    /\ wpc' = "flag"
    /\ UNCHANGED <<bidv, askv, updatedBits, hasUpdates, hasUpdatesAtomic, wid,
                   wbid, wask, wseq, wTodo, wcount, rpc, rid, rseq1, rseq2,
                   rres, rTodo, lastBits, hist, exVars, evVars, libVars>>

\* hasUpdatesAtomic_.store(true) before the mutex is taken
UpdateFlag ==
    /\ wpc = "flag"
    /\ hasUpdatesAtomic' = TRUE
    /\ wpc' = "publish"
    /\ UNCHANGED <<seqn, bidv, askv, updatedBits, hasUpdates, wid, wbid, wask,
                   wseq, wTodo, wcount, rpc, rid, rseq1, rseq2, rres, rTodo,
                   lastBits, hist, exVars, evVars, libVars>>

\* { lock; updatedBits_.set(id); hasUpdates_ = true; }
UpdatePublish ==
    /\ wpc = "publish"
    /\ updatedBits' = updatedBits \cup {wid}
    /\ hasUpdates' = TRUE
    /\ wpc' = "notify"
    /\ bitBy' = IF wid \in updatedBits THEN bitBy
                ELSE [bitBy EXCEPT ![wid] = wcount]
    /\ UNCHANGED <<seqn, bidv, askv, hasUpdatesAtomic, wid, wbid, wask, wseq,
                   wTodo, wcount, rpc, rid, rseq1, rseq2, rres, rTodo,
                   lastBits, hist, exVars, evVars, rdVars, rgVars, cyVars,
                   wtVars, rnVars, gtRest, observed, gotBy>>

\* updateCv_.notify_one(): a thread waiting on the condition variable wakes
UpdateNotify ==
    /\ wpc = "notify"
    /\ wpc' = "idle"
    /\ cpc' = IF cpc = "sleeping" THEN "woken" ELSE cpc
    /\ UNCHANGED <<seqn, bidv, askv, updatedBits, hasUpdates,
                   hasUpdatesAtomic, wid, wbid, wask, wseq, wTodo, wcount,
                   rpc, rid, rseq1, rseq2, rres, rTodo, lastBits, hist,
                   exVars, evVars, auxVars, rdVars, rgVars, cyVars, rnVars,
                   ctimed, spins, received>>

\* the do-while condition `seq1 != seq2` of get(): TRUE = iterate again.
\* An uninitialised seq2 compares either way.
LoopAgain(s1, s2) ==
    IF s2 = Uninit THEN {TRUE, FALSE} ELSE {s1 # s2}

\* get(): entry, result and both sequence locals fresh
GetCall(id) ==
    /\ rpc = "idle"
    /\ rpc' = "load1"
    /\ rid' = id
    /\ rseq1' = Uninit /\ rseq2' = Uninit
    /\ rres' = [bid |-> 0, ask |-> 0]
    /\ rTodo' = {}
    /\ UNCHANGED <<seqn, bidv, askv, updatedBits, hasUpdates,
                   hasUpdatesAtomic, wpc, wid, wbid, wask, wseq, wTodo,
                   wcount, lastBits, hist, exVars, evVars, libVars>>

\* seq1 = load(acquire); if odd, `continue` jumps to the loop condition
GetLoad1 ==
    /\ rpc = "load1"
    /\ rseq1' = seqn[rid]
    /\ IF seqn[rid] % 2 = 1
       THEN \E again \in LoopAgain(seqn[rid], rseq2) :
                /\ rpc' = IF again THEN "load1" ELSE "ret"
                /\ rTodo' = {}
       ELSE /\ rpc' = "read"
            /\ rTodo' = Fields
    /\ UNCHANGED <<seqn, bidv, askv, updatedBits, hasUpdates, hasUpdatesAtomic,
                   wpc, wid, wbid, wask, wseq, wTodo, wcount,
                   rid, rseq2, rres, lastBits, hist, exVars, evVars, libVars>>

\* result.bid = slot.bid; result.ask = slot.ask (plain loads, either order)
GetRead(f) ==
    /\ rpc = "read"
    /\ f \in rTodo
    /\ rTodo' = rTodo \ {f}
    /\ rres' = IF f = "bid" THEN [rres EXCEPT !.bid = bidv[rid]]
                            ELSE [rres EXCEPT !.ask = askv[rid]]
    /\ rpc' = IF rTodo' = {} THEN "load2" ELSE "read"
    /\ UNCHANGED <<seqn, bidv, askv, updatedBits, hasUpdates, hasUpdatesAtomic,
                   wpc, wid, wbid, wask, wseq, wTodo, wcount,
                   rid, rseq1, rseq2, lastBits, hist, exVars, evVars, libVars>>

\* seq2 = load(acquire); while (seq1 != seq2)
GetLoad2 ==
    /\ rpc = "load2"
    /\ rseq2' = seqn[rid]
    /\ \E again \in LoopAgain(rseq1, seqn[rid]) :
           rpc' = IF again THEN "load1" ELSE "ret"
    /\ UNCHANGED <<seqn, bidv, askv, updatedBits, hasUpdates, hasUpdatesAtomic,
                   wpc, wid, wbid, wask, wseq, wTodo, wcount,
                   rid, rseq1, rres, rTodo, lastBits, hist, exVars, evVars, libVars>>

\* return result
GetReturn ==
    /\ rpc = "ret"
    /\ rpc' = "idle"
    /\ observed' = [observed EXCEPT ![rid] = <<rres.bid, rres.ask>>]
    /\ UNCHANGED <<bitBy, gotBy>>
    /\ UNCHANGED <<seqn, bidv, askv, updatedBits, hasUpdates,
                   hasUpdatesAtomic, wpc, wid, wbid, wask, wseq, wTodo,
                   wcount, rid, rseq1, rseq2, rres, rTodo, lastBits, hist,
                   exVars, evVars, rdVars, rgVars, cyVars, wtVars, rnVars,
                   gtRest>>

\* consumeUpdates(): snapshot and clear under the mutex
ConsumeUpdates ==
    /\ rpc = "idle"
    /\ IF ~hasUpdates
       THEN /\ lastBits' = {}
            /\ UNCHANGED <<updatedBits, hasUpdates, hasUpdatesAtomic>>
       ELSE /\ lastBits' = updatedBits
            /\ updatedBits' = {}
            /\ hasUpdates' = FALSE
            /\ hasUpdatesAtomic' = FALSE
    /\ gotBy' = bitBy
    /\ UNCHANGED <<seqn, bidv, askv,
                   wpc, wid, wbid, wask, wseq, wTodo, wcount,
                   rpc, rid, rseq1, rseq2, rres, rTodo, hist, exVars, evVars,
                   rdVars, rgVars, cyVars, wtVars, rnVars, gtRest, observed,
                   bitBy>>

(***************************************************************************)
(* Broker, TradePersistence and the executor                               *)
(*                                                                         *)
(* Quantities are integers; `realQty < qty * 0.99` is the exact comparison *)
(* 100 * realQty < 99 * qty.  Prices take no part in the control flow of   *)
(* the executor and are left out of orders and records.  The symbol of     *)
(* leg k of a signal is written k.  Of orderStates_ only the entry of the  *)
(* latest order is kept, until the executor has read it for the last time. *)
(* `audit` and `sent` hold the rows appended and the orders submitted      *)
(* since the current sequence began; the log is append-only and never read *)
(* back, so earlier rows cannot change.                                    *)
(***************************************************************************)
MAX_ROLLBACK_RETRIES == 1
FillPct == 99

Sides == {"BUY", "SELL"}
Terminal == {"FILLED", "CANCELED", "REJECTED", "EXPIRED"}
NoOrder ==
    [id |-> 0, status |-> "UNKNOWN", cumQty |-> 0, orderQty |-> 0, avgPx |-> 0]

\* cumulative quantities an execution report may carry for an order of q:
\* nothing, the largest quantity below 99%, the least quantity reaching 99%
\* (a larger fill takes the same branches as the least one reaching 99%)
FillQtys(q) ==
    {0, ((FillPct * q + 99) \div 100) - 1, (FillPct * q + 99) \div 100}

\* a tolerance that lets a fill one unit short of 99% pass
BelowTolerance_loose(cum, qty) == 100 * (cum + 1) < FillPct * qty

\* realQty < qty * 0.99
BelowTolerance(cum, qty) == 100 * cum < FillPct * qty

InitExecutor ==
    /\ orderIdCounter = 0
    /\ ord = NoOrder
    /\ sequenceCounter = 0
    /\ audit = <<>>
    /\ epc = "idle" /\ phase = "leg"
    /\ sig = <<"BUY", "BUY", "BUY">>
    /\ parentTradeId = 0 /\ legIndex = 0 /\ executedOrders = <<>>
    /\ status = "UNKNOWN"
    /\ rbPos = 0 /\ retryCount = 0
    /\ rollbackSucceeded = FALSE /\ allRollbacksSucceeded = TRUE
    /\ sent = <<>> /\ outcome = "none" /\ fetches = 0
    /\ legRes = <<>>
    /\ curGood = FALSE /\ allGood = TRUE /\ nSignals = 0

\* an id drawn without advancing the counter
GenerateClOrdId_same(counter) == counter

\* Broker::generateClOrdId: `++orderIdCounter_` on the std::atomic<int>, one
\* atomic read-modify-write; the counter part of the id (the id is the
\* millisecond clock, '_' and the counter, so two ids of different counter
\* parts differ)
GenerateClOrdId(counter) == counter + 1

\* the estimated price of the order of leg k of a signal (order.getPrice();
\* the legs carry different prices)
EstPrice(k) == k

\* a test mode that leaves the order pending, as the live path does
SendMarketOrder_pending(qty, estPrice) ==
    [counter |-> GenerateClOrdId(orderIdCounter),
     entry |-> [id |-> GenerateClOrdId(orderIdCounter),
                status |-> "PENDING_NEW", cumQty |-> 0, orderQty |-> qty,
                avgPx |-> 0]]

\* Broker::sendMarketOrder / testMarketOrder: the new counter and the entry
\* created.  Test mode draws two ids and fills the order at once, in full,
\* at the estimated price.  The price of a live fill is the exchange's and
\* is not followed: the entry keeps the default 0.
SendMarketOrder(qty, estPrice) ==
    IF liveMode
    THEN [counter |-> GenerateClOrdId(orderIdCounter),
          entry |-> [id |-> GenerateClOrdId(orderIdCounter),
                     status |-> "PENDING_NEW", cumQty |-> 0, orderQty |-> qty,
                     avgPx |-> 0]]
    ELSE [counter |-> GenerateClOrdId(GenerateClOrdId(orderIdCounter)),
          entry |-> [id |-> GenerateClOrdId(GenerateClOrdId(orderIdCounter)),
                     status |-> "FILLED", cumQty |-> qty, orderQty |-> qty,
                     avgPx |-> estPrice]]

\* TradePersistence::generateSequenceId: the counter part of the parent id
GenerateSequenceId == sequenceCounter + 1

\* leg kinds with the last leg taken for an intermediate one
TradeTypeOf_noexit(idx, n) == IF idx = 0 THEN "ENTRY" ELSE "INTERMEDIATE"

\* TradeType of a leg (0-based index) of a sequence of n legs
TradeTypeOf(idx, n) ==
    IF idx = 0 THEN "ENTRY" ELSE IF idx = n - 1 THEN "EXIT" ELSE "INTERMEDIATE"

\* TradePersistence::recordTrade: the row is appended, or dropped when the
\* file cannot be opened or written
RecordTrade(rec) == {Append(audit, rec), audit}

\* a rollback on the side of the executed order
RollbackSide_same(side) == side

\* opposite side of an executed order
RollbackSide(side) == IF side = "BUY" THEN "SELL" ELSE "BUY"

\* visiting executedOrders from begin to end
RollbackIter_forward(n) == [k \in 1 .. n |-> k]

\* the order in which executeRollback visits executedOrders (rbegin..rend):
\* the k-th visited is element RollbackIter(n)[k]
RollbackIter(n) == [k \in 1 .. n |-> n + 1 - k]

\* whether a rollback order ending with `st` counts as succeeded
RollbackCounts(st, cum, qty) == st = "FILLED"

\* a loop that takes the next signal after a failed sequence
AfterThrow_resume == "idle"

\* where the throw at the end of handleExecutionFailure leaves the
\* orchestrator: run() catches std::exception and breaks out of its loop
AfterThrow == "stopped"

\* Runner::executeArbitrage entry: parent id, empty bookkeeping
ExecuteArbitrage(sides) ==
    /\ epc = "idle"
    /\ nSignals < MaxSignals
    /\ nSignals' = nSignals + 1
    /\ sig' = sides
    /\ sequenceCounter' = GenerateSequenceId
    /\ parentTradeId' = GenerateSequenceId
    /\ legIndex' = 0
    /\ executedOrders' = <<>>
    /\ legRes' = <<>> /\ curGood' = FALSE /\ allGood' = TRUE
    /\ fetches' = 0 /\ outcome' = "none"
    /\ phase' = "leg"
    /\ sent' = <<>> /\ audit' = <<>>
    /\ epc' = "send"
    /\ UNCHANGED <<obVars, evVars, libVars, orderIdCounter, liveMode, ord, status,
                   rbPos, retryCount, rollbackSucceeded,
                   allRollbacksSucceeded>>

\* broker_->sendMarketOrder for the leg at legIndex
SendLeg ==
    /\ epc = "send"
    /\ LET r == SendMarketOrder(ReqQty, EstPrice(legIndex + 1)) IN
        /\ orderIdCounter' = r.counter
        /\ ord' = r.entry
        /\ sent' = Append(sent, [id |-> r.entry.id, kind |-> "leg",
                                 sym |-> legIndex + 1,
                                 side |-> sig[legIndex + 1],
                                 qty |-> ReqQty, px |-> EstPrice(legIndex + 1),
                                 parent |-> parentTradeId])
    /\ phase' = "leg"
    /\ epc' = "wait_check"
    /\ UNCHANGED <<obVars, evVars, libVars, liveMode, sequenceCounter, audit, sig,
                   parentTradeId, legIndex, executedOrders, status, rbPos,
                   retryCount, rollbackSucceeded, allRollbacksSucceeded,
                   outcome, fetches, legRes, curGood, allGood, nSignals>>

\* Broker::onMessage(ExecutionReport) on the order-entry thread: the
\* exchange reports on a live order until it reports a terminal status.
\* Reports that arrive after waitForOrderCompletion gave up are left out:
\* the entry of a timed-out order is never read again.
ExecutionReport(st, cum) ==
    /\ liveMode
    /\ ord.id # 0
    /\ epc \in {"wait_check", "wait_block"}
    /\ ord.status \notin Terminal
    /\ cum \in FillQtys(ord.orderQty)
    /\ cum >= ord.cumQty
    /\ st = "NEW" => ord.status = "PENDING_NEW" /\ cum = 0
    /\ st = "PARTIALLY_FILLED" => cum > ord.cumQty /\ cum < ord.orderQty
    /\ st \in {"REJECTED", "CANCELED", "EXPIRED"} => cum = ord.cumQty
    /\ ord' = [ord EXCEPT !.status = st, !.cumQty = cum]
    /\ UNCHANGED <<obVars, evVars, libVars, orderIdCounter, liveMode, sequenceCounter,
                   audit, epc, phase, sig, parentTradeId, legIndex,
                   executedOrders, status, rbPos, retryCount,
                   rollbackSucceeded, allRollbacksSucceeded, sent, outcome,
                   fetches, legRes, curGood, allGood, nSignals>>

\* where control goes when waitForOrderCompletion returns
AfterWait == IF phase = "leg" THEN "leg_handle" ELSE "rb_handle"

\* waitForOrderCompletion: the status test made with the mutex held
WaitCheck ==
    /\ epc = "wait_check"
    /\ IF ord.status \in Terminal
       THEN status' = ord.status /\ epc' = AfterWait
       ELSE epc' = "wait_block" /\ UNCHANGED status
    /\ UNCHANGED <<obVars, evVars, libVars, orderIdCounter, liveMode, ord,
                   sequenceCounter, audit, phase, sig, parentTradeId,
                   legIndex, executedOrders, rbPos, retryCount,
                   rollbackSucceeded, allRollbacksSucceeded, sent, outcome,
                   fetches, legRes, curGood, allGood, nSignals>>

\* wait_until returns before the deadline (notified or spuriously)
WaitWake ==
    /\ epc = "wait_block"
    /\ epc' = "wait_check"
    /\ UNCHANGED <<obVars, evVars, libVars, orderIdCounter, liveMode, ord,
                   sequenceCounter, audit, phase, sig, parentTradeId,
                   legIndex, executedOrders, status, rbPos, retryCount,
                   rollbackSucceeded, allRollbacksSucceeded, sent, outcome,
                   fetches, legRes, curGood, allGood, nSignals>>

\* wait_until returns cv_status::timeout: UNKNOWN without another test
WaitTimeout ==
    /\ epc = "wait_block"
    /\ status' = "UNKNOWN"
    /\ epc' = AfterWait
    /\ UNCHANGED <<obVars, evVars, libVars, orderIdCounter, liveMode, ord,
                   sequenceCounter, audit, phase, sig, parentTradeId,
                   legIndex, executedOrders, rbPos, retryCount,
                   rollbackSucceeded, allRollbacksSucceeded, sent, outcome,
                   fetches, legRes, curGood, allGood, nSignals>>

\* handleExecutionFailure up to the call of executeRollback: with nothing
\* executed it refreshes the balance and throws
HandleExecutionFailure(ex) ==
    /\ IF ex # <<>>
       THEN /\ epc' = "rb_send"
            /\ rbPos' = 1
            /\ retryCount' = 0
            /\ rollbackSucceeded' = FALSE
            /\ allRollbacksSucceeded' = TRUE
            /\ UNCHANGED <<outcome, fetches>>
       ELSE /\ epc' = AfterThrow
            /\ outcome' = "Failed"
            /\ fetches' = fetches + 1
            /\ UNCHANGED <<rbPos, retryCount, rollbackSucceeded,
                           allRollbacksSucceeded>>

\* tracking a fill below tolerance even when nothing filled
TrackPartial_always(ex, e, cum) == Append(ex, e)

\* a fill below tolerance is still tracked for rollback if anything filled
TrackPartial(ex, e, cum) == IF cum > 0 THEN Append(ex, e) ELSE ex

\* the body of the leg loop after the wait returned.  The loop-local status
\* ends with the iteration, and the entry of the order is not read again
\* once getOrderState has returned its copy.
\* legRes keeps what the executor read of the leg (st, cum, px) and, for the
\* history, whether the entry of the order held a cumulative quantity > 0.
LegHandle ==
    /\ epc = "leg_handle"
    /\ IF status # "FILLED"
       THEN /\ HandleExecutionFailure(executedOrders)
            /\ UNCHANGED <<executedOrders, audit, legIndex>>
       ELSE /\ LET e == [clOrdId |-> ord.id, sym |-> legIndex + 1,
                         side |-> sig[legIndex + 1], filledQty |-> ord.cumQty,
                         avgPrice |-> ord.avgPx]
               IN
               IF BelowTolerance(ord.cumQty, ReqQty)
               THEN /\ executedOrders' =
                          TrackPartial(executedOrders, e, ord.cumQty)
                    /\ HandleExecutionFailure(executedOrders')
                    /\ UNCHANGED <<audit, legIndex>>
               ELSE /\ executedOrders' = Append(executedOrders, e)
                    /\ audit' \in RecordTrade(
                          [tradeId |-> ord.id, parentTradeId |-> parentTradeId,
                           tradeType |-> TradeTypeOf(legIndex, 3),
                           sym |-> legIndex + 1, side |-> sig[legIndex + 1],
                           intendedQty |-> ReqQty, actualQty |-> ord.cumQty,
                           status |-> "EXECUTED"])
                    /\ legIndex' = legIndex + 1
                    /\ epc' = IF legIndex + 1 = 3 THEN "pnl" ELSE "send"
                    /\ UNCHANGED <<rbPos, retryCount, rollbackSucceeded,
                                   allRollbacksSucceeded, outcome, fetches>>
    /\ legRes' = Append(legRes, [st |-> status,
                                 cum |-> IF status = "FILLED"
                                         THEN ord.cumQty ELSE 0,
                                 px |-> IF status = "FILLED"
                                        THEN ord.avgPx ELSE 0,
                                 hadFill |-> ord.cumQty > 0])
    /\ status' = "UNKNOWN"
    /\ ord' = NoOrder
    /\ UNCHANGED <<obVars, evVars, libVars, orderIdCounter, liveMode, sequenceCounter,
                   phase, sig, parentTradeId, sent, curGood, allGood, nSignals>>

\* after the loop: balances fetched, the three PnL figures logged
ReportPnl ==
    /\ epc = "pnl"
    /\ fetches' = fetches + 1
    /\ outcome' = "Completed"
    /\ epc' = "idle"
    /\ UNCHANGED <<obVars, evVars, libVars, orderIdCounter, liveMode, ord,
                   sequenceCounter, audit, phase, sig, parentTradeId,
                   legIndex, executedOrders, status, rbPos, retryCount,
                   rollbackSucceeded, allRollbacksSucceeded, sent, legRes,
                   curGood, allGood, nSignals>>

\* the executed order the rollback loop is at
RollbackTarget == executedOrders[RollbackIter(Len(executedOrders))[rbPos]]

\* executeRollback: sendMarketOrder of the opposite side, filled quantity
RollbackSend ==
    /\ epc = "rb_send"
    /\ LET e == RollbackTarget
           r == SendMarketOrder(e.filledQty, e.avgPrice) IN
        /\ orderIdCounter' = r.counter
        /\ ord' = r.entry
        /\ sent' = Append(sent, [id |-> r.entry.id, kind |-> "rollback",
                                 sym |-> e.sym,
                                 side |-> RollbackSide(e.side),
                                 qty |-> e.filledQty, px |-> e.avgPrice,
                                 parent |-> parentTradeId])
    /\ phase' = "rb"
    /\ epc' = "wait_check"
    /\ UNCHANGED <<obVars, evVars, libVars, liveMode, sequenceCounter, audit, sig,
                   parentTradeId, legIndex, executedOrders, status, rbPos,
                   retryCount, rollbackSucceeded, allRollbacksSucceeded,
                   outcome, fetches, legRes, curGood, allGood, nSignals>>

\* executeRollback: the status of the rollback order is judged, ++retryCount
RollbackHandle ==
    /\ epc = "rb_handle"
    /\ rollbackSucceeded' =
          RollbackCounts(status, ord.cumQty, RollbackTarget.filledQty)
    /\ curGood' = (curGood \/ (status = "FILLED"
                    /\ ~BelowTolerance(ord.cumQty, RollbackTarget.filledQty)))
    /\ retryCount' = retryCount + 1
    /\ epc' = "rb_loop"
    /\ UNCHANGED <<obVars, evVars, libVars, orderIdCounter, liveMode, ord,
                   sequenceCounter, audit, phase, sig, parentTradeId,
                   legIndex, executedOrders, status, rbPos,
                   allRollbacksSucceeded, sent, outcome, fetches, legRes,
                   allGood, nSignals>>

\* executeRollback: retry, go to the next executed order, or return to
\* handleExecutionFailure, which logs the result, refreshes and throws.
\* The status and the order state of the attempt end with the iteration.
RollbackLoop ==
    /\ epc = "rb_loop"
    /\ IF ~rollbackSucceeded /\ retryCount <= MAX_ROLLBACK_RETRIES
       THEN /\ epc' = "rb_send"
            /\ UNCHANGED <<rbPos, retryCount, rollbackSucceeded,
                           allRollbacksSucceeded, outcome, fetches,
                           curGood, allGood>>
       ELSE LET all == allRollbacksSucceeded /\ rollbackSucceeded IN
            /\ allRollbacksSucceeded' = all
            /\ allGood' = (allGood /\ curGood)
            /\ curGood' = FALSE
            /\ IF rbPos < Len(executedOrders)
               THEN /\ rbPos' = rbPos + 1
                    /\ retryCount' = 0
                    /\ rollbackSucceeded' = FALSE
                    /\ epc' = "rb_send"
                    /\ UNCHANGED <<outcome, fetches>>
               ELSE /\ outcome' = IF all THEN "RolledBack" ELSE "Compromised"
                    /\ fetches' = fetches + 1
                    /\ epc' = AfterThrow
                    /\ UNCHANGED <<rbPos, retryCount, rollbackSucceeded>>
    /\ status' = "UNKNOWN"
    /\ ord' = NoOrder
    /\ UNCHANGED <<obVars, evVars, libVars, orderIdCounter, liveMode, sequenceCounter,
                   audit, phase, sig, parentTradeId, legIndex, executedOrders,
                   sent, legRes, nSignals>>

(***************************************************************************)
(* The evaluator: ArbitragePath, ArbitragePathPool, TriangularArbitrage,   *)
(* the lot and notional filters                                            *)
(*                                                                         *)
(* Amounts, prices and ratios are exact rationals <<numerator,             *)
(* denominator>> in lowest terms with a positive denominator, so the       *)
(* arithmetic is that of the real numbers the doubles stand for.  The      *)
(* symbols of the one triangle are 1, 2, 3.  A path caches the quotes it   *)
(* read; both callers refresh the cache from the book right before they    *)
(* use it, so the cache is local to a call here.  The sizer knows every    *)
(* symbol (the runner adds each one), with the same filters on each.       *)
(***************************************************************************)
RECURSIVE GCD(_, _)
GCD(a, b) == IF b = 0 THEN a ELSE GCD(b, a % b)

Abs(x) == IF x < 0 THEN -x ELSE x

\* the rational n/d (d # 0) in lowest terms
Norm(n, d) ==
    LET g == GCD(Abs(n), Abs(d))
        sgn == IF d < 0 THEN -1 ELSE 1 IN
    <<sgn * (n \div g), sgn * (d \div g)>>

R(i) == <<i, 1>>
RMul(x, y) == Norm(x[1] * y[1], x[2] * y[2])
RDiv(x, y) == Norm(x[1] * y[2], x[2] * y[1])
RSub(x, y) == Norm(x[1] * y[2] - y[1] * x[2], x[2] * y[2])
RLt(x, y) == x[1] * y[2] < y[1] * x[2]
RLe(x, y) == x[1] * y[2] <= y[1] * x[2]
RMax(x, y) == IF RLt(x, y) THEN y ELSE x
RMin(x, y) == IF RLt(y, x) THEN y ELSE x
\* std::floor
RFloor(x) == x[1] \div x[2]

ESyms == 1 .. 3

\* quotes a slot of the book may hold: none yet, a bid only, bid = ask,
\* bid < ask
Quotes ==
    {[bid |-> 0, ask |-> 0], [bid |-> 1, ask |-> 0], [bid |-> 1, ask |-> 1],
     [bid |-> 1, ask |-> MaxPrice], [bid |-> MaxPrice, ask |-> MaxPrice]}

Stakes == {-MaxStake, 0, MaxStake}

\* fee percentages of the symbols: none, uniform, or one symbol free of
\* fee with the others at 10% or at 30%
FeeAssignments ==
    {[y \in ESyms |-> 0], [y \in ESyms |-> 10],
     [y \in ESyms |-> IF y = 1 THEN 0 ELSE 10],
     [y \in ESyms |-> IF y = 1 THEN 0 ELSE 30]}

NoLot == [minQty |-> 0, maxQty |-> 0, stepSize |-> 0]

NoFilters ==
    [lotSize |-> NoLot, marketLotSize |-> NoLot,
     minNotional |-> [minNotional |-> 0, applyToMarket |-> TRUE],
     notional |-> [minNotional |-> 0, maxNotional |-> 0,
                   applyMinToMarket |-> FALSE, applyMaxToMarket |-> FALSE]]

\* filter sets of the symbols: none; a step; a step with a minimum
\* quantity below, or above, the amounts a stake yields; a step with a
\* minimum notional that applies to market orders; a notional range that
\* exempts market orders
FilterSets ==
    {NoFilters,
     [NoFilters EXCEPT !.lotSize.stepSize = 1],
     [NoFilters EXCEPT !.lotSize.stepSize = 1, !.lotSize.minQty = 1],
     [NoFilters EXCEPT !.lotSize.stepSize = 1, !.lotSize.minQty = 20],
     [NoFilters EXCEPT !.lotSize.stepSize = 1,
                       !.minNotional.minNotional = 25],
     [NoFilters EXCEPT !.notional.minNotional = 25]}

\* the two directions round the triangle
Path1 == [syms |-> <<1, 2, 3>>, isBuy |-> <<TRUE, TRUE, FALSE>>]
Path2 == [syms |-> <<3, 2, 1>>, isBuy |-> <<TRUE, FALSE, FALSE>>]
Pools == {<<>>, <<Path1>>, <<Path1, Path2>>}

\* TriangularArbitrageConfig::minProfitRatio, its default 1.0001
MinProfitRatio == <<10001, 10000>>

NoSignal == [none |-> TRUE]

InitEvaluator ==
    /\ pool \in Pools
    /\ feePct \in FeeAssignments
    /\ filters \in FilterSets
    /\ quotes \in [ESyms -> Quotes]
    /\ res = [call |-> "none", signal |-> NoSignal]

\* the evaluator at rest in the specifications of the other components
IdleEvaluator ==
    /\ pool = <<>>
    /\ feePct = [y \in ESyms |-> 0]
    /\ filters = NoFilters
    /\ quotes = [y \in ESyms |-> [bid |-> 0, ask |-> 0]]
    /\ res = [call |-> "none", signal |-> NoSignal]

\* LotSizeFilter::isValid
LotIsValid(lot) == lot.stepSize > 0 \/ lot.minQty > 0 \/ lot.maxQty > 0

\* LotSizeFilter::roundQty and MarketLotSizeFilter::roundQty
RoundQty(lot, qty) ==
    IF lot.stepSize <= 0 THEN qty
    ELSE LET floored == R(RFloor(RDiv(qty, R(lot.stepSize))) * lot.stepSize)
             atLeast == IF lot.minQty > 0 THEN RMax(R(lot.minQty), floored)
                        ELSE floored
         IN IF lot.maxQty > 0 THEN RMin(R(lot.maxQty), atLeast) ELSE atLeast

\* SymbolFilters::roundMarketQty
RoundMarketQty(f, qty) ==
    IF LotIsValid(f.marketLotSize) THEN RoundQty(f.marketLotSize, qty)
    ELSE RoundQty(f.lotSize, qty)

\* OrderSizer::roundQuantity for a symbol the sizer knows
RoundQuantity(f, qty, isMarketOrder) ==
    IF isMarketOrder THEN RoundMarketQty(f, qty) ELSE RoundQty(f.lotSize, qty)

\* MinNotionalFilter::validateNotional
MinNotionalValidate(m, price, qty, isMarketOrder) ==
    IF ~(m.minNotional > 0) THEN TRUE
    ELSE IF isMarketOrder /\ ~m.applyToMarket THEN TRUE
    ELSE RLe(R(m.minNotional), RMul(price, qty))

\* NotionalFilter::validateNotional
NotionalValidate(n, price, qty, isMarketOrder) ==
    LET notional == RMul(price, qty) IN
    /\ ~(/\ n.minNotional > 0
         /\ (~isMarketOrder \/ n.applyMinToMarket)
         /\ RLt(notional, R(n.minNotional)))
    /\ ~(/\ n.maxNotional > 0
         /\ (~isMarketOrder \/ n.applyMaxToMarket)
         /\ RLt(R(n.maxNotional), notional))

\* SymbolFilters::validateNotional
ValidateNotional(f, price, qty, isMarketOrder) ==
    IF f.notional.minNotional > 0 \/ f.notional.maxNotional > 0
    THEN NotionalValidate(f.notional, price, qty, isMarketOrder)
    ELSE MinNotionalValidate(f.minNotional, price, qty, isMarketOrder)

\* ArbitragePath constructor: feeMultipliers_[leg] = 1 - feePct / 100
FeeMultipliers(p) ==
    [leg \in 1 .. 3 |-> RSub(R(1), RDiv(R(feePct[p.syms[leg]]), R(100)))]

\* ArbitragePath::updatePrices: the cached quotes, the effective
\* multipliers and pricesValid_
UpdatePrices(p) ==
    LET b == [leg \in 1 .. 3 |-> quotes[p.syms[leg]].bid]
        a == [leg \in 1 .. 3 |-> quotes[p.syms[leg]].ask]
        good == [leg \in 1 .. 3 |->
                    IF p.isBuy[leg] THEN a[leg] > 0 ELSE b[leg] > 0] IN
    [bids |-> b, asks |-> a,
     effectiveMultipliers |->
         [leg \in 1 .. 3 |->
             IF ~good[leg] THEN R(0)
             ELSE IF p.isBuy[leg] THEN RDiv(R(1), R(a[leg]))
             ELSE R(b[leg])],
     pricesValid |-> \A leg \in 1 .. 3 : good[leg]]

\* ArbitragePath::getFastRatio
GetFastRatio(p, c) ==
    IF ~c.pricesValid THEN R(0)
    ELSE LET fm == FeeMultipliers(p)
             m == [leg \in 1 .. 3 |->
                      RMul(c.effectiveMultipliers[leg], fm[leg])] IN
         RMul(RMul(RMul(R(1), m[1]), m[2]), m[3])

\* a test that lets every final pnl pass
Profitable_any(pnl) == TRUE

\* the test evaluate makes on the final pnl
Profitable(pnl) == RLt(R(0), pnl)

\* one iteration of the leg loop of ArbitragePath::evaluate on the running
\* state st = [ok, cur, orders]
EvaluateLeg(p, c, feeRate, st, leg) ==
    IF ~st.ok THEN st
    ELSE IF c.bids[leg] <= 0 \/ c.asks[leg] <= 0 THEN [st EXCEPT !.ok = FALSE]
    ELSE LET orderPrice == IF p.isBuy[leg] THEN R(c.asks[leg])
                           ELSE R(c.bids[leg])
             keep == RSub(R(1), feeRate) IN
         IF p.isBuy[leg]
         THEN LET rawGetQty == RDiv(st.cur, orderPrice)
                  endingQty == RMul(rawGetQty, keep)
                  roundedEndingQty == RoundQuantity(filters, endingQty, TRUE)
              IN IF RLe(roundedEndingQty, R(0)) THEN [st EXCEPT !.ok = FALSE]
                 ELSE [ok |-> TRUE, cur |-> endingQty,
                       orders |-> Append(st.orders,
                           [sym |-> p.syms[leg], side |-> "BUY",
                            price |-> orderPrice, qty |-> rawGetQty])]
         ELSE LET roundedSellQty == RoundQuantity(filters, st.cur, TRUE)
                  rawGetQty == RMul(roundedSellQty, orderPrice)
                  endingQty == RMul(rawGetQty, keep)
              IN IF RLe(roundedSellQty, R(0)) THEN [st EXCEPT !.ok = FALSE]
                 ELSE [ok |-> TRUE, cur |-> endingQty,
                       orders |-> Append(st.orders,
                           [sym |-> p.syms[leg], side |-> "SELL",
                            price |-> orderPrice, qty |-> roundedSellQty])]

\* ArbitragePath::evaluate on the cached quotes c
Evaluate(p, c, initialStake) ==
    LET feeRate == RSub(R(1), FeeMultipliers(p)[1])
        s0 == [ok |-> TRUE, cur |-> R(initialStake), orders |-> <<>>]
        s1 == EvaluateLeg(p, c, feeRate, s0, 1)
        s2 == EvaluateLeg(p, c, feeRate, s1, 2)
        s3 == EvaluateLeg(p, c, feeRate, s2, 3)
        pnl == RSub(s3.cur, R(initialStake)) IN
    IF s3.ok /\ Profitable(pnl)
    THEN [none |-> FALSE, orders |-> s3.orders, description |-> p.syms,
          pnl |-> pnl]
    ELSE NoSignal

\* ArbitragePathPool::buildIndex: the paths of a symbol, by index
SymbolToPathIndex(symId) ==
    SelectSeq([i \in 1 .. Len(pool) |-> i],
              LAMBDA i : \E leg \in 1 .. 3 : pool[i].syms[leg] = symId)

\* ArbitragePathPool::getAffectedPaths: symbols ascending, each path once
RECURSIVE AffectedFrom(_, _, _)
AffectedFrom(symId, updatedSymbols, result) ==
    IF symId > Cardinality(DOMAIN quotes) THEN result
    ELSE LET new == IF symId \in updatedSymbols
                    THEN SelectSeq(SymbolToPathIndex(symId),
                             LAMBDA i : \A k \in 1 .. Len(result) :
                                            result[k] # i)
                    ELSE <<>> IN
         AffectedFrom(symId + 1, updatedSymbols, result \o new)

GetAffectedPaths(updatedSymbols) == AffectedFrom(1, updatedSymbols, <<>>)

\* a loop that keeps the last signal found
Better_any(signal, best) == ~signal.none

\* a loop that lets a later signal of equal pnl replace the best one
Better_orEqual(signal, best) ==
    ~signal.none /\ RLe(IF best.none THEN R(0) ELSE best.pnl, signal.pnl)

\* signal.has_value() && signal->pnl > bestPnl
Better(signal, best) ==
    ~signal.none /\ RLt(IF best.none THEN R(0) ELSE best.pnl, signal.pnl)

\* the loop of onMarketDataUpdate over the affected paths from position k,
\* best being bestSignal (bestPnl is its pnl, or 0.0)
RECURSIVE BestFrom(_, _, _, _)
BestFrom(affected, k, stake, best) ==
    IF k > Len(affected) THEN best
    ELSE LET p == pool[affected[k]]
             c == UpdatePrices(p)
             ratio == GetFastRatio(p, c)
             signal == Evaluate(p, c, stake) IN
         IF RLe(ratio, MinProfitRatio)
         THEN BestFrom(affected, k + 1, stake, best)
         ELSE IF Better(signal, best)
         THEN BestFrom(affected, k + 1, stake, signal)
         ELSE BestFrom(affected, k + 1, stake, best)

\* TriangularArbitrage::onMarketDataUpdate: what it returns
OnMarketDataUpdateResult(updatedSymbols, stake) ==
    IF stake <= 0 THEN NoSignal
    ELSE IF Len(pool) = 0 THEN NoSignal
    ELSE LET affected == GetAffectedPaths(updatedSymbols) IN
         IF affected = <<>> THEN NoSignal
         ELSE BestFrom(affected, 1, stake, NoSignal)

\* the strategy is asked for a signal after a batch of updates
OnMarketDataUpdate(updatedSymbols, stake) ==
    /\ res' = [call |-> "onMarketDataUpdate", stake |-> stake,
               updatedSymbols |-> updatedSymbols,
               signal |-> OnMarketDataUpdateResult(updatedSymbols, stake)]
    /\ UNCHANGED <<obVars, exVars, libVars, pool, feePct, filters, quotes>>

\* a path refreshes its cache from the book and is evaluated in full
EvaluatePath(i, stake) ==
    /\ i \in 1 .. Len(pool)
    /\ res' = [call |-> "evaluate", stake |-> stake, path |-> i,
               signal |-> Evaluate(pool[i], UpdatePrices(pool[i]), stake)]
    /\ UNCHANGED <<obVars, exVars, libVars, pool, feePct, filters, quotes>>

(***************************************************************************)
(* SymbolFilters: the rounding functions called on their own               *)
(***************************************************************************)
MaxQty == 6
MaxStep == 2

\* quantities in halves up to MaxQty
Qtys == {Norm(n, 2) : n \in 0 .. (2 * MaxQty)}

\* lot filters: no floor / a floor of 2, no cap / a cap of 4, and a step of
\* 0 (unset), 1, ... MaxStep
LotFilters ==
    {[minQty |-> a, maxQty |-> b, stepSize |-> c] :
        a \in {0, 2}, b \in {0, 4}, c \in 0 .. MaxStep}

\* a symbol's filters as roundQty / roundMarketQty see them
RoundFilterSets ==
    {[NoFilters EXCEPT !.lotSize = l, !.marketLotSize = m] :
        l \in LotFilters, m \in {NoLot} \cup LotFilters}

NoRound == [call |-> "none"]

IdleRounding == rnd = NoRound

RoundQtyCall(f, q) ==
    /\ rnd' = [call |-> "roundQty", lot |-> f.lotSize, qty |-> q,
               r |-> RoundQty(f.lotSize, q)]
    /\ UNCHANGED <<obVars, exVars, evVars, auxVars, rgVars, cyVars, wtVars, rnVars>>

RoundMarketQtyCall(f, q) ==
    /\ rnd' = [call |-> "roundMarketQty",
               lot |-> IF LotIsValid(f.marketLotSize) THEN f.marketLotSize
                       ELSE f.lotSize,
               qty |-> q, r |-> RoundMarketQty(f, q)]
    /\ UNCHANGED <<obVars, exVars, evVars, auxVars, rgVars, cyVars, wtVars, rnVars>>

(***************************************************************************)
(* SymbolRegistry                                                          *)
(***************************************************************************)
\* capacity of the registry, scaled down from 4096
MAX_SYMBOLS == 3
INVALID_SYMBOL_ID == 65535
\* calls of clear() explored
MaxClears == 1

\* symbol strings, one more than the registry can hold
Names == 1 .. (MAX_SYMBOLS + 1)
NoName == 0
Ids == 0 .. (MAX_SYMBOLS - 1)
\* arguments of registerSymbols: vectors of up to two strings
NameVectors == {<<>>} \cup {<<a>> : a \in Names} \cup (Names \X Names)

EmptyMap == [x \in {} |-> 0]

\* SymbolRegistry::SymbolRegistry
InitRegistry ==
    /\ symbolToId = EmptyMap
    /\ idToSymbol = <<>>
    /\ rgRes = [call |-> "none"]
    /\ firstId = [x \in Names |-> INVALID_SYMBOL_ID]
    /\ firstOwner = [i \in Ids |-> NoName]
    /\ nClears = 0

\* registerSymbol without the lookup of the string
RegisterSymbol_nofind(m, v, symbol) ==
    IF Len(v) >= MAX_SYMBOLS
    THEN [m |-> m, v |-> v, ret |-> INVALID_SYMBOL_ID, threw |-> TRUE]
    ELSE LET id == Len(v) % 65536 IN
         [m |-> [x \in DOMAIN m \cup {symbol} |->
                    IF x = symbol THEN id ELSE m[x]],
          v |-> Append(v, symbol), ret |-> id, threw |-> FALSE]

\* registerSymbol without the capacity check
RegisterSymbol_nocap(m, v, symbol) ==
    IF symbol \in DOMAIN m
    THEN [m |-> m, v |-> v, ret |-> m[symbol], threw |-> FALSE]
    ELSE LET id == Len(v) % 65536 IN
         [m |-> [x \in DOMAIN m \cup {symbol} |->
                    IF x = symbol THEN id ELSE m[x]],
          v |-> Append(v, symbol), ret |-> id, threw |-> FALSE]

\* registerSymbol on the containers (m, v): what it leaves and returns
RegisterSymbol(m, v, symbol) ==
    IF symbol \in DOMAIN m
    THEN [m |-> m, v |-> v, ret |-> m[symbol], threw |-> FALSE]
    ELSE IF Len(v) >= MAX_SYMBOLS
    THEN [m |-> m, v |-> v, ret |-> INVALID_SYMBOL_ID, threw |-> TRUE]
    ELSE LET id == Len(v) % 65536 IN
         [m |-> [x \in DOMAIN m \cup {symbol} |->
                    IF x = symbol THEN id ELSE m[x]],
          v |-> Append(v, symbol), ret |-> id, threw |-> FALSE]

\* registerSymbols: the loop over the vector, left at the first throw
RECURSIVE RegisterSymbols(_, _, _, _)
RegisterSymbols(m, v, symbols, ids) ==
    IF symbols = <<>> THEN [m |-> m, v |-> v, ret |-> ids, threw |-> FALSE]
    ELSE LET one == RegisterSymbol(m, v, Head(symbols)) IN
         IF one.threw
         THEN [m |-> one.m, v |-> one.v, ret |-> <<>>, threw |-> TRUE]
         ELSE RegisterSymbols(one.m, one.v, Tail(symbols),
                              Append(ids, one.ret))

\* the history after the containers went from v to v2
FirstIdAfter(v, v2) ==
    [x \in Names |->
        IF firstId[x] = INVALID_SYMBOL_ID
           /\ \E k \in (Len(v) + 1) .. Len(v2) : v2[k] = x
        THEN (CHOOSE k \in (Len(v) + 1) .. Len(v2) : v2[k] = x) - 1
        ELSE firstId[x]]

FirstOwnerAfter(v, v2) ==
    [i \in Ids |->
        IF firstOwner[i] = NoName /\ i + 1 > Len(v) /\ i + 1 <= Len(v2)
        THEN v2[i + 1] ELSE firstOwner[i]]

RegistryCall(call, arg, out) ==
    /\ symbolToId' = out.m
    /\ idToSymbol' = out.v
    /\ rgRes' = [call |-> call, arg |-> arg, ret |-> out.ret,
                 threw |-> out.threw,
                 known |-> IF call = "registerSymbol"
                           THEN arg \in DOMAIN symbolToId ELSE FALSE,
                 sizeBefore |-> Len(idToSymbol),
                 changed |-> out.m # symbolToId \/ out.v # idToSymbol]
    /\ firstId' = FirstIdAfter(idToSymbol, out.v)
    /\ firstOwner' = FirstOwnerAfter(idToSymbol, out.v)
    /\ nClears' = IF call = "clear" THEN nClears + 1 ELSE nClears
    /\ UNCHANGED <<obVars, exVars, evVars, auxVars, rdVars, cyVars, wtVars, rnVars>>

RegisterSymbolCall(symbol) ==
    /\ symbol \in Names
    /\ RegistryCall("registerSymbol", symbol,
                    RegisterSymbol(symbolToId, idToSymbol, symbol))

RegisterSymbolsCall(symbols) ==
    /\ symbols \in NameVectors
    /\ RegistryCall("registerSymbols", symbols,
                    RegisterSymbols(symbolToId, idToSymbol, symbols, <<>>))

\* getId
GetId(m, symbol) == IF symbol \in DOMAIN m THEN m[symbol] ELSE INVALID_SYMBOL_ID

GetIdCall(symbol) ==
    /\ symbol \in Names
    /\ RegistryCall("getId", symbol,
                    [m |-> symbolToId, v |-> idToSymbol,
                     ret |-> GetId(symbolToId, symbol), threw |-> FALSE])

\* getSymbol: idToSymbol_[id]; past the end of the vector the read is
\* undefined and may yield any string or none
GetSymbolResults(v, id) ==
    IF id < Len(v) THEN {v[id + 1]} ELSE Names \cup {NoName}

GetSymbolCall(id) ==
    /\ id \in 0 .. MAX_SYMBOLS
    /\ \E r \in GetSymbolResults(idToSymbol, id) :
          RegistryCall("getSymbol", id,
                       [m |-> symbolToId, v |-> idToSymbol,
                        ret |-> r, threw |-> FALSE])

\* clear
ClearCall ==
    /\ nClears < MaxClears
    /\ RegistryCall("clear", NoName,
                    [m |-> EmptyMap, v |-> <<>>, ret |-> NoName,
                     threw |-> FALSE])

IdleRegistry == InitRegistry

(***************************************************************************)
(* TriangularArbitrage: computeArbitragePaths                              *)
(***************************************************************************)
Assets == {"A", "B", "C"}

\* the symbols an exchange may list (base, quote, and the string the
\* registry interns): a pair of one asset with itself, and a triangle
SymbolUniverse ==
    {[base |-> "A", quote |-> "A", name |-> 1],
     [base |-> "A", quote |-> "B", name |-> 2],
     [base |-> "B", quote |-> "C", name |-> 3],
     [base |-> "C", quote |-> "A", name |-> 4]}

\* exchange infos: the listed symbols in any order, none listed twice
SymbolLists ==
    {l \in UNION {[1 .. n -> SymbolUniverse] :
                    n \in 0 .. Cardinality(SymbolUniverse)} :
        \A i \in DOMAIN l, j \in DOMAIN l : i # j => l[i] # l[j]}

ArbitrageDepth == 3

\* Symbol::operator==
SymbolEq(a, b) == a.base = b.base /\ a.quote = b.quote

\* Order::getStartingAsset / Order::getResultingAsset
GetStartingAsset(order) ==
    IF order.way = "BUY" THEN order.symbol.quote ELSE order.symbol.base
GetResultingAsset(order) ==
    IF order.way = "BUY" THEN order.symbol.base ELSE order.symbol.quote

\* the resulting coin taken from the wrong side of the symbol
ResultingCoin_swapped(order) ==
    IF order.way = "SELL" THEN order.symbol.base ELSE order.symbol.quote

\* the resulting coin as computeArbitragePaths derives it
ResultingCoin(order) ==
    IF order.way = "SELL" THEN order.symbol.quote ELSE order.symbol.base

\* getPossibleOrders
RECURSIVE GetPossibleOrders(_, _)
GetPossibleOrders(coin, relatedSymbols) ==
    IF relatedSymbols = <<>> THEN <<>>
    ELSE LET symbol == Head(relatedSymbols)
             rest == GetPossibleOrders(coin, Tail(relatedSymbols)) IN
         IF coin = symbol.base
         THEN <<[symbol |-> symbol, way |-> "SELL"]>> \o rest
         ELSE IF coin = symbol.quote
         THEN <<[symbol |-> symbol, way |-> "BUY"]>> \o rest
         ELSE rest

\* the symbols of the list a path leaves unused, every one of them
UnusedSymbols_all(list, path) == list

\* the symbols of the list no order of the path uses
UnusedSymbols(list, path) ==
    LET Used(symbol) ==
            \E k \in DOMAIN path : SymbolEq(path[k].symbol, symbol)
    IN SelectSeq(list, LAMBDA symbol : ~Used(symbol))

\* an extension is kept whatever it leads to
KeepOrder_any(i, depth, nextResultingCoin, start) == TRUE

\* the last extension is kept only if it leads back to the starting asset
KeepOrder(i, depth, nextResultingCoin, start) ==
    ~(i = depth - 2 /\ nextResultingCoin # start)

\* the extensions of one path in iteration i
ExtendPath(list, start, depth, i, path) ==
    LET resultingCoin == ResultingCoin(path[Len(path)])
        possibleNextOrders ==
            GetPossibleOrders(resultingCoin, UnusedSymbols(list, path))
        RECURSIVE Ext(_)
        Ext(os) ==
            IF os = <<>> THEN <<>>
            ELSE IF KeepOrder(i, depth, ResultingCoin(Head(os)), start)
                 THEN <<Append(path, Head(os))>> \o Ext(Tail(os))
                 ELSE Ext(Tail(os))
    IN Ext(possibleNextOrders)

\* one iteration over stratPaths
RECURSIVE ExtendPaths(_, _, _, _, _)
ExtendPaths(list, start, depth, i, paths) ==
    IF paths = <<>> THEN <<>>
    ELSE ExtendPath(list, start, depth, i, Head(paths))
            \o ExtendPaths(list, start, depth, i, Tail(paths))

\* the loop of computeArbitragePaths from iteration i
RECURSIVE ExtendFrom(_, _, _, _, _)
ExtendFrom(list, start, depth, i, paths) ==
    IF i >= depth - 1 THEN paths
    ELSE ExtendFrom(list, start, depth, i + 1,
                    ExtendPaths(list, start, depth, i, paths))

\* the order vectors computeArbitragePaths ends with
ComputeOrderPaths(list, start, depth) ==
    LET firstOrders == GetPossibleOrders(start, list) IN
    ExtendFrom(list, start, depth, 0,
               [k \in DOMAIN firstOrders |-> <<firstOrders[k]>>])

\* the strings the ArbitragePath constructors register, in order
RECURSIVE PathNames(_)
PathNames(paths) ==
    IF paths = <<>> THEN <<>>
    ELSE [k \in DOMAIN Head(paths) |-> Head(paths)[k].symbol.name]
            \o PathNames(Tail(paths))

\* the registry after registering the strings one by one
RECURSIVE RegisterAll(_, _, _)
RegisterAll(m, v, names) ==
    IF names = <<>> THEN [m |-> m, v |-> v, threw |-> FALSE]
    ELSE LET one == RegisterSymbol(m, v, Head(names)) IN
         IF one.threw THEN [m |-> one.m, v |-> one.v, threw |-> TRUE]
         ELSE RegisterAll(one.m, one.v, Tail(names))

\* ArbitragePath::ArbitragePath: the orders with the ids of their symbols
MakeArbitragePath(m, orders) ==
    [orders |-> orders,
     symbolIds |-> [k \in DOMAIN orders |-> m[orders[k].symbol.name]]]

NotComputed == [computed |-> FALSE]

InitRoutes ==
    /\ symbolsList \in SymbolLists
    /\ startingAsset \in Assets
    /\ stratPaths = NotComputed

IdleRoutes ==
    /\ symbolsList = <<>>
    /\ startingAsset = "A"
    /\ stratPaths = NotComputed

\* computeArbitragePaths(symbolsList, startingAsset, 3) as discoverRoutes
\* calls it, with the registrations its ArbitragePath objects make
DiscoverRoutes ==
    /\ LET paths == ComputeOrderPaths(symbolsList, startingAsset,
                                      ArbitrageDepth)
           reg == RegisterAll(symbolToId, idToSymbol, PathNames(paths))
       IN /\ stratPaths' =
                [computed |-> TRUE, threw |-> reg.threw,
                 paths |-> IF reg.threw THEN <<>>
                           ELSE [k \in DOMAIN paths |->
                                   MakeArbitragePath(reg.m, paths[k])]]
          /\ symbolToId' = reg.m
          /\ idToSymbol' = reg.v
          /\ firstId' = FirstIdAfter(idToSymbol, reg.v)
          /\ firstOwner' = FirstOwnerAfter(idToSymbol, reg.v)
    /\ UNCHANGED <<rgRes, nClears, symbolsList, startingAsset>>

ComputeArbitragePaths ==
    /\ ~stratPaths.computed
    /\ DiscoverRoutes
    /\ UNCHANGED <<obVars, exVars, evVars, auxVars, rdVars, wtVars, rnVars>>

(***************************************************************************)
(* The strategy on the pool discoverRoutes builds for an exchange of four  *)
(* assets: six symbols, six cycles from A.  The registry is far from its   *)
(* capacity here, so a symbol gets the next id at its first registration.  *)
(***************************************************************************)
PoolSymbols ==
    <<[base |-> "A", quote |-> "B", name |-> 1],
      [base |-> "B", quote |-> "C", name |-> 2],
      [base |-> "C", quote |-> "A", name |-> 3],
      [base |-> "B", quote |-> "D", name |-> 4],
      [base |-> "D", quote |-> "A", name |-> 5],
      [base |-> "D", quote |-> "C", name |-> 6]>>

PoolOrderPaths == ComputeOrderPaths(PoolSymbols, "A", ArbitrageDepth)

\* SymbolRegistry::registerSymbol below capacity, string after string: the
\* vector idToSymbol_ it ends with
RECURSIVE Intern(_, _)
Intern(names, v) ==
    IF names = <<>> THEN v
    ELSE IF \E i \in DOMAIN v : v[i] = Head(names)
    THEN Intern(Tail(names), v)
    ELSE Intern(Tail(names), Append(v, Head(names)))

PoolIdToSymbol == Intern(PathNames(PoolOrderPaths), <<>>)

\* the slot of a symbol, counted from 1 as the evaluator's symbols are
PoolSlot(name) ==
    CHOOSE i \in DOMAIN PoolIdToSymbol : PoolIdToSymbol[i] = name

\* pathPool_ after discoverRoutes: symbol ids and directions of each cycle
DiscoveredPool ==
    [k \in DOMAIN PoolOrderPaths |->
        [syms |-> [leg \in 1 .. 3 |->
                      PoolSlot(PoolOrderPaths[k][leg].symbol.name)],
         isBuy |-> [leg \in 1 .. 3 |->
                      PoolOrderPaths[k][leg].way = "BUY"]]]

PoolSyms == DOMAIN PoolIdToSymbol

\* quotes of a book with bid <= ask
PoolQuotes ==
    {[bid |-> 1, ask |-> 1], [bid |-> 1, ask |-> MaxPrice],
     [bid |-> MaxPrice, ask |-> MaxPrice]}

\* the bitmaps a wait hands over: nothing, or the bits of two symbols
PoolBatches == {U \in SUBSET PoolSyms : Cardinality(U) \in {0, 2}}

\* nothing to stake, or a stake
PoolStakes == {0, MaxStake}

InitPool ==
    /\ pool = DiscoveredPool
    /\ feePct \in {[y \in PoolSyms |-> 0], [y \in PoolSyms |-> 10]}
    /\ filters \in {NoFilters, [NoFilters EXCEPT !.lotSize.stepSize = 1]}
    /\ quotes \in [PoolSyms -> PoolQuotes]
    /\ res = [call |-> "none", signal |-> NoSignal]

\* the strategy is asked once on the book as it stands
FirstUpdate(updatedSymbols, stake) ==
    /\ res.call = "none"
    /\ OnMarketDataUpdate(updatedSymbols, stake)

(***************************************************************************)
(* OrderBook: the waits of the main thread                                 *)
(***************************************************************************)
\* iterations of the spin loop, scaled down from the caller's maxSpins
MaxSpins == 2

IdleWaits ==
    /\ cpc = "idle" /\ ctimed = FALSE /\ spins = 0 /\ received = {}

\* what the waits leave alone in the order book
slotVars == <<seqn, bidv, askv, wpc, wid, wbid, wask, wseq, wTodo, wcount,
              rpc, rid, rseq1, rseq2, rres, rTodo, lastBits, hist>>

\* the predicate of the condition-variable waits, never true
WaitPredicate_never == FALSE

\* the predicate of the condition-variable waits: [this] { return hasUpdates_; }
WaitPredicate == hasUpdates

\* a return that takes the bitmap and leaves hasUpdates_ raised
ReturnSnapshot_keepFlag ==
    /\ received' = updatedBits
    /\ updatedBits' = {}
    /\ hasUpdates' = hasUpdates
    /\ hasUpdatesAtomic' = FALSE
    /\ cpc' = "returned"

\* a return that clears the bitmap and hands back an empty one
ReturnSnapshot_lossy ==
    /\ received' = {}
    /\ updatedBits' = {}
    /\ hasUpdates' = FALSE
    /\ hasUpdatesAtomic' = FALSE
    /\ cpc' = "returned"

\* result = updatedBits_; updatedBits_.reset(); hasUpdates_ = false;
\* hasUpdatesAtomic_.store(false); return result;
ReturnSnapshot ==
    /\ received' = updatedBits
    /\ updatedBits' = {}
    /\ hasUpdates' = FALSE
    /\ hasUpdatesAtomic' = FALSE
    /\ cpc' = "returned"

\* the mutex taken and the predicate evaluated: return the snapshot, or
\* release the mutex and sleep on the condition variable
CheckOrSleep(timed) ==
    /\ ctimed' = timed
    /\ IF WaitPredicate THEN ReturnSnapshot
       ELSE /\ cpc' = "sleeping"
            /\ UNCHANGED <<received, updatedBits, hasUpdates,
                           hasUpdatesAtomic>>

\* waitForUpdates()
WaitForUpdates ==
    /\ cpc \in {"idle", "returned"}
    /\ CheckOrSleep(FALSE)
    /\ UNCHANGED <<slotVars, spins, exVars, evVars, auxVars, rdVars, rgVars, cyVars,
                   rnVars>>

\* waitForUpdatesWithTimeout(timeout)
WaitForUpdatesWithTimeout ==
    /\ cpc \in {"idle", "returned"}
    /\ CheckOrSleep(TRUE)
    /\ UNCHANGED <<slotVars, spins, exVars, evVars, auxVars, rdVars, rgVars, cyVars,
                   rnVars>>

\* a notified (or spuriously woken) waiter takes the mutex and evaluates the
\* predicate again
WaitNotified ==
    /\ cpc = "woken"
    /\ CheckOrSleep(ctimed)
    /\ UNCHANGED <<slotVars, spins, exVars, evVars, auxVars, rdVars, rgVars, cyVars,
                   rnVars>>

\* a condition variable may wake its waiter without a notify
SpuriousWake ==
    /\ cpc = "sleeping"
    /\ cpc' = "woken"
    /\ UNCHANGED <<obVars, ctimed, spins, received, exVars, evVars, auxVars, rdVars,
                   rgVars, cyVars, rnVars>>

\* wait_for runs out of time: it returns the predicate's value, and the
\* caller an empty bitset when that is false
WaitTimesOut ==
    /\ cpc \in {"sleeping", "woken"}
    /\ ctimed
    /\ IF WaitPredicate THEN ReturnSnapshot
       ELSE /\ received' = {}
            /\ cpc' = "returned"
            /\ UNCHANGED <<updatedBits, hasUpdates, hasUpdatesAtomic>>
    /\ UNCHANGED <<slotVars, ctimed, spins, exVars, evVars, auxVars, rdVars, rgVars,
                   cyVars, rnVars>>

\* waitForUpdatesSpin(maxSpins): the loop is entered
WaitForUpdatesSpin ==
    /\ cpc \in {"idle", "returned"}
    /\ cpc' = "spin"
    /\ spins' = 0
    /\ UNCHANGED <<obVars, ctimed, received, exVars, evVars, auxVars, rdVars, rgVars,
                   cyVars, rnVars>>

\* one iteration: the atomic flag, and under the mutex hasUpdates_
SpinIteration ==
    /\ cpc = "spin"
    /\ spins < MaxSpins
    /\ IF hasUpdatesAtomic /\ hasUpdates
       THEN ReturnSnapshot /\ UNCHANGED spins
       ELSE /\ spins' = spins + 1
            /\ UNCHANGED <<cpc, received, updatedBits, hasUpdates,
                           hasUpdatesAtomic>>
    /\ UNCHANGED <<slotVars, ctimed, exVars, evVars, auxVars, rdVars, rgVars, cyVars,
                   rnVars>>

\* the spins are used up: return waitForUpdates()
SpinFallsBack ==
    /\ cpc = "spin"
    /\ spins >= MaxSpins
    /\ CheckOrSleep(FALSE)
    /\ UNCHANGED <<slotVars, spins, exVars, evVars, auxVars, rdVars, rgVars, cyVars,
                   rnVars>>

(***************************************************************************)
(* Runner: initialize() and the main loop of run()                         *)
(***************************************************************************)
PollingModes == {"Blocking", "BusyPoll", "Hybrid"}
MaxBalance == 1
Exited == {"exitedShutdown", "exitedNoBalance", "exitedError"}

\* the exchange infos the runner is started on: no symbol, and a triangle
RunSymbolLists ==
    {<<>>,
     <<[base |-> "A", quote |-> "B", name |-> 2],
       [base |-> "B", quote |-> "C", name |-> 3],
       [base |-> "C", quote |-> "A", name |-> 4]>>}

\* Runner::Runner
InitRunner ==
    /\ runpc = "created"
    /\ pollingMode \in PollingModes
    /\ shutdownRequested = FALSE
    /\ balance = 0
    /\ handled = 0

IdleRunner ==
    /\ runpc = "created"
    /\ pollingMode = "Hybrid"
    /\ shutdownRequested = FALSE
    /\ balance = 0
    /\ handled = 0

\* initialize(): the routes are discovered, the balances fetched (an asset
\* the account does not list gets 0.0), the sessions connected
Initialize(free) ==
    /\ runpc = "created"
    /\ DiscoverRoutes
    /\ balance' = free
    /\ runpc' = "head"
    /\ UNCHANGED <<obVars, exVars, evVars, auxVars, rdVars, wtVars, pollingMode,
                   shutdownRequested, handled>>

\* requestShutdown(), from the signal handler
RequestShutdown ==
    /\ ~shutdownRequested
    /\ shutdownRequested' = TRUE
    /\ UNCHANGED <<obVars, exVars, evVars, auxVars, rdVars, rgVars, cyVars, wtVars,
                   runpc, pollingMode, balance, handled>>

\* while (!shutdownRequested_.load(acquire))
RunLoopHead ==
    /\ runpc = "head"
    /\ runpc' = IF shutdownRequested THEN "exitedShutdown" ELSE "wait"
    /\ UNCHANGED <<obVars, exVars, evVars, auxVars, rdVars, rgVars, cyVars, wtVars,
                   pollingMode, shutdownRequested, balance, handled>>

\* case Blocking: waitForUpdatesWithTimeout(100ms)
RunWaitBlocking ==
    /\ runpc = "wait" /\ cpc = "idle"
    /\ pollingMode = "Blocking"
    /\ WaitForUpdatesWithTimeout

\* case BusyPoll: waitForUpdatesSpin(INT_MAX); case Hybrid and default:
\* waitForUpdatesSpin(busyPollSpinCount)
RunWaitSpin ==
    /\ runpc = "wait" /\ cpc = "idle"
    /\ pollingMode \in {"BusyPoll", "Hybrid"}
    /\ WaitForUpdatesSpin

\* the wait has returned: `continue` on the empty bitset of a timeout, return
\* without a positive balance of the starting asset, else the strategy and
\* the executor are run, and what they throw ends the loop
RunAfterWait(threw) ==
    /\ runpc = "wait" /\ cpc = "returned"
    /\ cpc' = "idle"
    /\ IF pollingMode = "Blocking" /\ received = {}
       THEN runpc' = "head" /\ UNCHANGED handled
       ELSE IF balance <= 0
       THEN runpc' = "exitedNoBalance" /\ UNCHANGED handled
       ELSE /\ handled' = handled + 1
            /\ runpc' = IF threw THEN "exitedError" ELSE "head"
    /\ UNCHANGED <<obVars, exVars, evVars, auxVars, rdVars, rgVars, cyVars, ctimed,
                   spins, received, pollingMode, shutdownRequested, balance>>

(***************************************************************************)
(* CoalescingBuffer.  push and the two drains hold mutex_ from their first *)
(* statement to their return, so each is followed in two steps: the work   *)
(* on the map, then the store to the atomic flag with which the mutex is   *)
(* released.  hasUpdates() reads the flag without the mutex, so it may     *)
(* return the flag as it is in any state.  The vector a drain returns is   *)
(* in the iteration order of the unordered_map, which is any order.        *)
(***************************************************************************)
BufSyms == 1 .. MaxSym
\* bestBidPrice of an update: an older and a newer quote
BufPrices == {1, 2}
MarketData == [symbol : BufSyms, bestBidPrice : BufPrices]

EmptyPending == [y \in {} |-> 0]

\* every order in which the entries of a map may be visited
Orderings(S) ==
    {q \in [1 .. Cardinality(S) -> S] :
        \A i, j \in DOMAIN q : i # j => q[i] # q[j]}

InitBuffer ==
    /\ pending_ = EmptyPending
    /\ hasUpdate_ = FALSE
    /\ mutex_ = "free"
    /\ ppc = "idle"
    /\ dpc = "idle"
    /\ drained = [call |-> "none", out |-> <<>>, since |-> <<>>]
    /\ pushed = <<>>

IdleBuffer == InitBuffer

\* no get() has returned yet: the reader knows the initial pair of each slot
IdleReader ==
    /\ observed = [i \in SymIds |-> <<0, 0>>]
    /\ bitBy = [i \in SymIds |-> 0]
    /\ gotBy = [i \in SymIds |-> 0]

(***************************************************************************)
(* Feeder: the snapshot barrier of Runner::initialize()                    *)
(*                                                                         *)
(* A symbol is written by the id getOrCreateSymbolId gives it, its slot.   *)
(***************************************************************************)
InitFeeder ==
    /\ expectedSymbols_ = {}
    /\ receivedSnapshots_ = {}
    /\ npc = "init"
    /\ success = FALSE
    /\ elapsed = FALSE
    /\ hpc = "idle"
    /\ hsym = 0
    /\ hmark = 0

IdleFeeder == InitFeeder

\* a receipt counted whatever the symbol
Track_any(exp, rcv, symbol) == rcv \cup {symbol}

\* if (expectedSymbols_.find(symbol) != end) receivedSnapshots_.insert(symbol)
Track(exp, rcv, symbol) ==
    IF symbol \in exp THEN rcv \cup {symbol} ELSE rcv

\* receivedSnapshots_.size() >= expectedSymbols_.size()
AllReceived(exp, rcv) ==
    Cardinality(rcv) >= Cardinality(exp)

\* the predicate of waitForAllSnapshots
SnapshotPredicate ==
    expectedSymbols_ = {} \/ AllReceived(expectedSymbols_, receivedSnapshots_)

\* initialize(): subscribeToSymbols(symbols) with the strategy's symbols;
\* setExpectedSymbols clears both sets and fills the expected one
SubscribeToSymbols(symbols) ==
    /\ npc = "init"
    /\ symbols # {}
    /\ expectedSymbols_' = symbols
    /\ receivedSnapshots_' = {}
    /\ npc' = "subscribed"
    /\ UNCHANGED <<obVars, exVars, evVars, rdVars, rgVars, cyVars, wtVars,
                   rnVars, fdRest, success, elapsed, hpc, hsym, hmark>>

\* initialize() with no arbitrage path: nothing is subscribed, nothing waited
NoSubscription ==
    /\ npc = "init"
    /\ npc' = "running"
    /\ UNCHANGED <<obVars, exVars, evVars, rdVars, rgVars, cyVars, wtVars,
                   rnVars, fdRest, expectedSymbols_, receivedSnapshots_,
                   success, elapsed, hpc, hsym, hmark>>

\* wait_for: the predicate under the mutex; true is returned, or the thread
\* sleeps on the condition variable
SnapshotCheckOrSleep ==
    /\ IF SnapshotPredicate
       THEN success' = TRUE /\ npc' = "returned"
       ELSE npc' = "sleeping" /\ UNCHANGED success
    /\ UNCHANGED <<obVars, exVars, evVars, rdVars, rgVars, cyVars, wtVars,
                   rnVars, fdRest, expectedSymbols_, receivedSnapshots_,
                   elapsed, hpc, hsym, hmark>>

\* waitForAllSnapshots(30000)
WaitForAllSnapshots ==
    /\ npc = "subscribed"
    /\ SnapshotCheckOrSleep

\* the waiter was notified (or woke by itself) and evaluates the predicate
SnapshotWaitWoken ==
    /\ npc = "woken"
    /\ SnapshotCheckOrSleep

SnapshotSpuriousWake ==
    /\ npc = "sleeping"
    /\ npc' = "woken"
    /\ UNCHANGED <<obVars, exVars, evVars, rdVars, rgVars, cyVars, wtVars,
                   rnVars, fdRest, expectedSymbols_, receivedSnapshots_,
                   success, elapsed, hpc, hsym, hmark>>

\* the timeout runs out: wait_for returns the value of the predicate
SnapshotWaitTimesOut ==
    /\ npc \in {"sleeping", "woken"}
    /\ elapsed' = TRUE
    /\ success' = SnapshotPredicate
    /\ npc' = "returned"
    /\ UNCHANGED <<obVars, exVars, evVars, rdVars, rgVars, cyVars, wtVars,
                   rnVars, fdRest, expectedSymbols_, receivedSnapshots_,
                   hpc, hsym, hmark>>

\* waitForMarketDataSnapshots logs the progress either way; initialize()
\* returns and run() enters the main loop
InitializationComplete ==
    /\ npc = "returned"
    /\ npc' = "running"
    /\ UNCHANGED <<obVars, exVars, evVars, rdVars, rgVars, cyVars, wtVars,
                   rnVars, fdRest, expectedSymbols_, receivedSnapshots_,
                   success, elapsed, hpc, hsym, hmark>>

\* onMessage(MarketDataSnapshot): the message is parsed, the id looked up
OnSnapshot(symbol) ==
    /\ hpc = "idle"
    /\ npc # "init"
    /\ wpc = "idle"
    /\ wcount < MaxUpdates
    /\ hpc' = "update"
    /\ hsym' = symbol
    /\ hmark' = wcount
    /\ UNCHANGED <<obVars, exVars, evVars, rdVars, rgVars, cyVars, wtVars,
                   rnVars, fdRest, expectedSymbols_, receivedSnapshots_,
                   npc, success, elapsed>>

\* onMessage: orderBook_.update(symbolId, bestBidPrice, bestAskPrice)
SnapshotUpdateBook(bid, ask) ==
    /\ hpc = "update"
    /\ wcount = hmark
    /\ UpdateCall(hsym, bid, ask)

\* onMessage: update() has returned; under snapshotMtx_ the receipt is
\* tracked and allReceived computed
SnapshotTrack ==
    /\ hpc = "update"
    /\ wcount > hmark
    /\ wpc = "idle"
    /\ receivedSnapshots_' =
           Track(expectedSymbols_, receivedSnapshots_, hsym)
    /\ hpc' = IF /\ hsym \in expectedSymbols_
                 /\ AllReceived(expectedSymbols_, receivedSnapshots_')
              THEN "notify" ELSE "idle"
    /\ UNCHANGED <<obVars, exVars, evVars, rdVars, rgVars, cyVars, wtVars,
                   rnVars, fdRest, expectedSymbols_, npc, success, elapsed,
                   hsym, hmark>>

\* onMessage: if (allReceived) snapshotCv_.notify_all()
SnapshotNotify ==
    /\ hpc = "notify"
    /\ hpc' = "idle"
    /\ npc' = IF npc = "sleeping" THEN "woken" ELSE npc
    /\ UNCHANGED <<obVars, exVars, evVars, rdVars, rgVars, cyVars, wtVars,
                   rnVars, fdRest, expectedSymbols_, receivedSnapshots_,
                   success, elapsed, hsym, hmark>>

IdleAux == IdleBuffer /\ IdleReader /\ IdleFeeder

\* an assignment that keeps the entry a symbol already has
Assign_keepFirst(m, data) ==
    IF data.symbol \in DOMAIN m THEN m
    ELSE [y \in DOMAIN m \cup {data.symbol} |->
             IF y = data.symbol THEN data ELSE m[y]]

\* pending_[data.symbol] = data
Assign(m, data) ==
    [y \in DOMAIN m \cup {data.symbol} |->
        IF y = data.symbol THEN data ELSE m[y]]

\* push: the lock is taken and the entry of the symbol is written
PushStore(data) ==
    /\ ppc = "idle" /\ mutex_ = "free"
    /\ Len(pushed) < MaxPushes
    /\ mutex_' = "producer"
    /\ pending_' = Assign(pending_, data)
    /\ pushed' = Append(pushed, data)
    /\ ppc' = "flag"
    /\ UNCHANGED <<obVars, exVars, evVars, cbRest, rdVars, rgVars, cyVars,
                   wtVars, rnVars, hasUpdate_, dpc, drained>>

\* push: the flag is raised and the lock released
PushFlag ==
    /\ ppc = "flag"
    /\ hasUpdate_' = TRUE
    /\ mutex_' = "free"
    /\ ppc' = "notify"
    /\ UNCHANGED <<obVars, exVars, evVars, cbRest, rdVars, rgVars, cyVars,
                   wtVars, rnVars, pending_, dpc, drained, pushed>>

\* push: cv_.notify_one() and return
PushNotify ==
    /\ ppc = "notify"
    /\ ppc' = "idle"
    /\ UNCHANGED <<obVars, exVars, evVars, cbRest, rdVars, rgVars, cyVars,
                   wtVars, rnVars, pending_, hasUpdate_, mutex_, dpc, drained, pushed>>

\* a drain: the lock is taken, the entries are copied to the vector in map
\* order (the symbols only for drainAffectedSymbols) and the map is cleared
DrainCollect(call) ==
    /\ dpc = "idle" /\ mutex_ = "free"
    /\ mutex_' = "consumer"
    /\ \E q \in Orderings(DOMAIN pending_) :
          drained' = [call |-> call,
                      out |-> [i \in DOMAIN q |->
                                 IF call = "drainAll" THEN pending_[q[i]]
                                 ELSE q[i]],
                      since |-> pushed]
    /\ pending_' = EmptyPending
    /\ pushed' = <<>>
    /\ dpc' = "flag"
    /\ UNCHANGED <<obVars, exVars, evVars, cbRest, rdVars, rgVars, cyVars,
                   wtVars, rnVars, hasUpdate_, ppc>>

DrainAll ==
    /\ dpc = "idle"
    /\ DrainCollect("drainAll")

DrainAffectedSymbols ==
    /\ dpc = "idle"
    /\ DrainCollect("drainAffectedSymbols")

\* a drain: the flag is lowered, the lock released, the vector returned
DrainFlag ==
    /\ dpc = "flag"
    /\ hasUpdate_' = FALSE
    /\ mutex_' = "free"
    /\ dpc' = "idle"
    /\ UNCHANGED <<obVars, exVars, evVars, cbRest, rdVars, rgVars, cyVars,
                   wtVars, rnVars, pending_, ppc, drained, pushed>>

\* hasUpdates()
HasUpdates == hasUpdate_

IdleLib ==
    /\ IdleRounding /\ IdleRegistry /\ IdleRoutes /\ IdleWaits /\ IdleRunner
    /\ IdleAux

(***************************************************************************)
(* Specifications                                                          *)
(***************************************************************************)
InitOB ==
    InitOrderBook /\ InitExecutor /\ liveMode = TRUE /\ IdleEvaluator /\ IdleLib

NextOB ==
    \/ \E id \in SymIds, bid \in Px, ask \in Px : UpdateCall(id, bid, ask)
    \/ UpdateStoreOdd
    \/ \E f \in Fields : UpdateWrite(f)
    \/ UpdateStoreEven
    \/ UpdateFlag
    \/ UpdatePublish
    \/ UpdateNotify
    \/ \E id \in SymIds : GetCall(id)
    \/ GetLoad1
    \/ \E f \in Fields : GetRead(f)
    \/ GetLoad2
    \/ GetReturn
    \/ ConsumeUpdates

SpecOB == InitOB /\ [][NextOB]_vars

\* the signals handed to the executor: three legs, either side at each leg
Signals == {<<"BUY", "SELL", "SELL">>, <<"SELL", "BUY", "BUY">>}

InitExec ==
    /\ InitOrderBook /\ InitExecutor /\ liveMode \in BOOLEAN
    /\ IdleEvaluator /\ IdleLib

NextExec ==
    \/ \E sides \in Signals : ExecuteArbitrage(sides)
    \/ SendLeg
    \/ \E st \in {"NEW", "PARTIALLY_FILLED"} \cup Terminal,
          cum \in 0 .. ReqQty : ExecutionReport(st, cum)
    \/ WaitCheck
    \/ WaitWake
    \/ WaitTimeout
    \/ LegHandle
    \/ ReportPnl
    \/ RollbackSend
    \/ RollbackHandle
    \/ RollbackLoop

SpecExec == InitExec /\ [][NextExec]_vars

\* the subsets of the symbols a batch of updates may name
UpdateBatches == {{}, {2}, {1, 3}}

InitEval ==
    /\ InitOrderBook /\ InitExecutor /\ liveMode = TRUE
    /\ InitEvaluator /\ IdleLib

NextEval ==
    \/ \E updatedSymbols \in UpdateBatches, stake \in Stakes :
          OnMarketDataUpdate(updatedSymbols, stake)
    \/ \E i \in 1 .. 2, stake \in Stakes : EvaluatePath(i, stake)

SpecEval == InitEval /\ [][NextEval]_vars

InitPoolSpec ==
    /\ InitOrderBook /\ InitExecutor /\ liveMode = TRUE
    /\ InitPool /\ IdleLib

NextPool ==
    \E updatedSymbols \in PoolBatches, stake \in PoolStakes :
        FirstUpdate(updatedSymbols, stake)

SpecPool == InitPoolSpec /\ [][NextPool]_vars

InitRound ==
    /\ InitOrderBook /\ InitExecutor /\ liveMode = TRUE
    /\ IdleEvaluator /\ IdleLib

NextRound ==
    \/ \E f \in RoundFilterSets, q \in Qtys : RoundQtyCall(f, q)
    \/ \E f \in RoundFilterSets, q \in Qtys : RoundMarketQtyCall(f, q)

SpecRound == InitRound /\ [][NextRound]_vars

InitRegister ==
    /\ InitOrderBook /\ InitExecutor /\ liveMode = TRUE
    /\ IdleEvaluator /\ IdleRounding /\ InitRegistry /\ IdleRoutes
    /\ IdleWaits /\ IdleRunner /\ IdleAux

\* registration and lookup
NextRegister ==
    \/ \E symbol \in Names : RegisterSymbolCall(symbol)
    \/ \E symbols \in NameVectors : RegisterSymbolsCall(symbols)
    \/ \E symbol \in Names : GetIdCall(symbol)
    \/ \E id \in 0 .. MAX_SYMBOLS : GetSymbolCall(id)

SpecRegister == InitRegister /\ [][NextRegister]_vars

\* every public operation
NextRegistry ==
    \/ \E symbol \in Names : RegisterSymbolCall(symbol)
    \/ \E symbols \in NameVectors : RegisterSymbolsCall(symbols)
    \/ \E symbol \in Names : GetIdCall(symbol)
    \/ \E id \in 0 .. MAX_SYMBOLS : GetSymbolCall(id)
    \/ ClearCall

SpecRegistry == InitRegister /\ [][NextRegistry]_vars

InitPaths ==
    /\ InitOrderBook /\ InitExecutor /\ liveMode = TRUE
    /\ IdleEvaluator /\ IdleRounding /\ InitRegistry /\ InitRoutes
    /\ IdleWaits /\ IdleRunner /\ IdleAux

NextPaths == ComputeArbitragePaths

SpecPaths == InitPaths /\ [][NextPaths]_vars

InitWait ==
    /\ InitOrderBook /\ InitExecutor /\ liveMode = TRUE
    /\ IdleEvaluator /\ IdleLib

\* the ingest thread inside an update it has begun
WriterStep ==
    \/ UpdateStoreOdd
    \/ \E f \in Fields : UpdateWrite(f)
    \/ UpdateStoreEven
    \/ UpdateFlag
    \/ UpdatePublish
    \/ UpdateNotify

\* the main thread: it calls a wait whenever the last one returned, runs
\* when notified, and a timed wait runs out of time
ConsumerStep ==
    \/ WaitForUpdates
    \/ WaitForUpdatesWithTimeout
    \/ WaitForUpdatesSpin
    \/ SpinIteration
    \/ SpinFallsBack
    \/ WaitNotified
    \/ WaitTimesOut

NextWait ==
    \/ \E id \in SymIds, px \in {0, 1} : UpdateCall(id, px, px)
    \/ WriterStep
    \/ ConsumerStep
    \/ SpuriousWake

SpecWait == InitWait /\ [][NextWait]_vars

\* both threads are scheduled; nothing is asked of further updates or of
\* spurious wake-ups
SpecWaitLive ==
    /\ InitWait /\ [][NextWait]_vars
    /\ WF_vars(WriterStep)
    /\ WF_vars(ConsumerStep)

\* the ingest thread alone: every update of every slot, partial ones too
NextSlot ==
    \/ \E id \in SymIds, bid \in Px, ask \in Px : UpdateCall(id, bid, ask)
    \/ WriterStep

SpecSlot == InitOB /\ [][NextSlot]_vars

\* the main thread polls with consumeUpdates() between its waits
ConsumeBetweenWaits ==
    /\ cpc \in {"idle", "returned"}
    /\ ConsumeUpdates

NextConsume ==
    \/ NextWait
    \/ ConsumeBetweenWaits

SpecConsume == InitWait /\ [][NextConsume]_vars

InitRun ==
    /\ InitOrderBook /\ InitExecutor /\ liveMode = TRUE
    /\ IdleEvaluator /\ IdleRounding /\ InitRegistry /\ IdleWaits
    /\ symbolsList \in RunSymbolLists
    /\ startingAsset = "A"
    /\ stratPaths = NotComputed
    /\ InitRunner
    /\ IdleAux

\* the main thread in the loop of run()
LoopStep ==
    \/ RunLoopHead
    \/ RunWaitBlocking
    \/ RunWaitSpin
    \/ SpinIteration
    \/ SpinFallsBack
    \/ WaitNotified
    \/ WaitTimesOut
    \/ \E threw \in BOOLEAN : RunAfterWait(threw)

NextRun ==
    \/ \E id \in SymIds, px \in {0, 1} : UpdateCall(id, px, px)
    \/ WriterStep
    \/ \E free \in 0 .. MaxBalance : Initialize(free)
    \/ LoopStep
    \/ SpuriousWake
    \/ RequestShutdown

InitBuf ==
    /\ InitOrderBook /\ InitExecutor /\ liveMode = TRUE
    /\ IdleEvaluator /\ IdleRounding /\ IdleRegistry /\ IdleRoutes
    /\ IdleWaits /\ IdleRunner /\ InitBuffer /\ IdleReader /\ IdleFeeder

\* a producer thread pushing, a consumer thread draining
NextBuf ==
    \/ \E data \in MarketData : PushStore(data)
    \/ PushFlag
    \/ PushNotify
    \/ DrainAll
    \/ DrainAffectedSymbols
    \/ DrainFlag

SpecBuf == InitBuf /\ [][NextBuf]_vars

SpecRun == InitRun /\ [][NextRun]_vars

\* both threads are scheduled and the deadline of a timed wait passes;
\* nothing is asked of the market (further updates), of spurious wake-ups
\* or of the signal handler
SpecRunLive ==
    /\ InitRun /\ [][NextRun]_vars
    /\ WF_vars(WriterStep)
    /\ WF_vars(LoopStep)
    /\ WF_vars(WaitTimesOut)

(***************************************************************************)
(* C1: a get(id) never returns a bid left by one write together with an    *)
(* ask left by another: the returned pair is the pair left in the slot by  *)
(* one single write, or the initial (0,0).  (hist also holds the pair of   *)
(* the write in progress, so only a genuine mix of two writes violates     *)
(* this.)                                                                  *)
(***************************************************************************)
C1_NoTornRead ==
    rpc = "ret" => <<rres.bid, rres.ask>> \in hist[rid]

(***************************************************************************)
(* The executor's claims are stated on what a run leaves behind: `sent`,   *)
(* `audit`, `legRes` (what each wait of a leg returned) and `outcome`.     *)
(***************************************************************************)
LegSent == SelectSeq(sent, LAMBDA o : o.kind = "leg")
RbSent == SelectSeq(sent, LAMBDA o : o.kind = "rollback")

\* the wait of a leg returned Filled with at least 99% of the request
LegFilled(r) == r.st = "FILLED" /\ 100 * r.cum >= FillPct * ReqQty

\* a failure was met at leg k of the current sequence
FailedAt(k) == Len(legRes) = k /\ ~LegFilled(legRes[k])

\* the legs rolled back, in the order of their first rollback order
RECURSIVE Dedup(_)
Dedup(q) ==
    IF q = <<>> THEN <<>>
    ELSE LET rest == Dedup(SubSeq(q, 1, Len(q) - 1))
             x == q[Len(q)] IN
         IF \E i \in 1 .. Len(rest) : rest[i] = x THEN rest
         ELSE Append(rest, x)

RbLegs == Dedup([i \in 1 .. Len(RbSent) |-> RbSent[i].sym])

(***************************************************************************)
(* C2: the legs of a signal are submitted in order 1, 2, 3, one at a time: *)
(* leg k+1 is submitted only after the wait on leg k returned Filled with  *)
(* at least 99% of the requested quantity, and after any other outcome at  *)
(* leg k no later leg of the signal is submitted.                          *)
(***************************************************************************)
C2_SequentialFailFast ==
    /\ \A i \in 1 .. Len(LegSent) : LegSent[i].sym = i
    /\ \A i \in 2 .. Len(LegSent) :
          Len(legRes) >= i - 1 /\ LegFilled(legRes[i - 1])
    /\ Len(LegSent) \in {Len(legRes), Len(legRes) + 1}
    /\ \A k \in 1 .. Len(legRes) :
          ~LegFilled(legRes[k]) => Len(LegSent) = k

\* leg 2 ended Filled one unit short of 99% after leg 1 went through, and
\* the sequence has ended with two legs submitted
C2_Witness ==
    /\ epc = "stopped"
    /\ Len(legRes) = 2
    /\ legRes[2].st = "FILLED" /\ legRes[2].cum > 0
    /\ ~LegFilled(legRes[2])
    /\ Len(LegSent) = 2

(***************************************************************************)
(* C3: rollback orders are submitted for the executed orders e_k, ...,     *)
(* e_1 in that order: every rollback order comes after the legs, no        *)
(* rollback order of an earlier leg precedes one of a later leg, and when  *)
(* the sequence has ended the legs rolled back are the executed ones, last *)
(* first.                                                                  *)
(***************************************************************************)
C3_RollbackLifo ==
    /\ \A i, j \in 1 .. Len(sent) :
          (i < j /\ sent[i].kind = "rollback") =>
              /\ sent[j].kind = "rollback"
              /\ sent[i].sym >= sent[j].sym
    /\ (epc = "stopped" /\ executedOrders # <<>>) =>
          RbLegs = [k \in 1 .. Len(executedOrders) |->
                       executedOrders[Len(executedOrders) + 1 - k].sym]

\* three executed orders (the third a partial fill) were unwound 3, 2, 1,
\* with a retry among the rollback orders
C3_Witness ==
    /\ epc = "stopped"
    /\ Len(executedOrders) = 3
    /\ RbLegs = <<3, 2, 1>>
    /\ Len(RbSent) > 3

C5_RollbackSuccessIff ==
    epc = "rb_loop" =>
        (rollbackSucceeded <=>
            (status = "FILLED" /\ 100 * ord.cumQty >= FillPct * ord.orderQty))

(***************************************************************************)
(* C6: a failed sequence with executed orders ends RolledBack if and only  *)
(* if for every executed order a rollback order ended Filled with at least *)
(* 99%, and Compromised otherwise; every executed order received a         *)
(* rollback order, and the balances were refreshed once.                   *)
(***************************************************************************)
C6_RolledBackIff ==
    (epc = "stopped" /\ executedOrders # <<>>) =>
        /\ outcome = (IF allGood THEN "RolledBack" ELSE "Compromised")
        /\ \A k \in 1 .. Len(executedOrders) :
              \E i \in 1 .. Len(RbSent) : RbSent[i].sym = executedOrders[k].sym
        /\ fetches = 1

(***************************************************************************)
(* C7: when leg 1 filled and leg 2 was rejected, the only rollback order   *)
(* is the opposite side of leg 1 with its filled quantity, the audit rows  *)
(* of the sequence are an Executed one for leg 1, a Failed one for leg 2   *)
(* and a Rollback one for leg 1, and the sequence ends RolledBack.  (The   *)
(* case is taken with the rollback order filling at once.)                 *)
(***************************************************************************)
C7_Leg2Rejected ==
    (/\ epc = "stopped"
     /\ Len(legRes) = 2 /\ LegFilled(legRes[1]) /\ legRes[2].st = "REJECTED"
     /\ allGood /\ Len(RbSent) = 1) =>
        /\ RbSent[1].sym = 1
        /\ RbSent[1].side = RollbackSide(sig[1])
        /\ RbSent[1].qty = legRes[1].cum
        /\ outcome = "RolledBack"
        /\ \E i \in 1 .. Len(audit) :
              audit[i].status = "EXECUTED" /\ audit[i].sym = 1
        /\ \E i \in 1 .. Len(audit) :
              audit[i].status = "FAILED" /\ audit[i].sym = 2
        /\ \E i \in 1 .. Len(audit) :
              audit[i].status = "ROLLBACK" /\ audit[i].sym = 1

(***************************************************************************)
(* C8, as stated: a sequence whose three legs fill leaves exactly three    *)
(* audit rows, of the parent id of the sequence, of kinds Entry,           *)
(* Intermediate, Exit in that order, none of them a rollback row.          *)
(***************************************************************************)
AuditKinds == [i \in 1 .. Len(audit) |-> audit[i].tradeType]

C8_Original ==
    outcome = "Completed" =>
        /\ AuditKinds = <<"ENTRY", "INTERMEDIATE", "EXIT">>
        /\ \A i \in 1 .. Len(audit) :
              /\ audit[i].parentTradeId = parentTradeId
              /\ audit[i].status # "ROLLBACK"

(***************************************************************************)
(* C8, amended: a sequence whose three legs fill leaves at most three      *)
(* audit rows, one for each leg whose row could be written: they are in    *)
(* the order of the legs, the row of leg 1 of kind Entry, of leg 2         *)
(* Intermediate, of leg 3 Exit, each Executed with the parent id of the    *)
(* sequence and the filled quantity of its leg; no rollback order is       *)
(* submitted.                                                              *)
(***************************************************************************)
C8_Amended ==
    outcome = "Completed" =>
        /\ Len(audit) <= 3
        /\ \A i, j \in 1 .. Len(audit) : i < j => audit[i].sym < audit[j].sym
        /\ \A i \in 1 .. Len(audit) :
              /\ audit[i].sym \in 1 .. 3
              /\ audit[i].tradeType =
                    <<"ENTRY", "INTERMEDIATE", "EXIT">>[audit[i].sym]
              /\ audit[i].parentTradeId = parentTradeId
              /\ audit[i].status = "EXECUTED"
              /\ audit[i].actualQty = legRes[audit[i].sym].cum
        /\ RbSent = <<>>

\* the second sequence of a run completed with its three rows written
C8_Witness ==
    /\ outcome = "Completed"
    /\ parentTradeId = 2
    /\ AuditKinds = <<"ENTRY", "INTERMEDIATE", "EXIT">>

(***************************************************************************)
(* C9: every Signal returned by ArbitragePath::evaluate or by              *)
(* onMarketDataUpdate has a pnl strictly greater than 0, and               *)
(* onMarketDataUpdate returns no signal when the stake is <= 0 or the pool *)
(* of cycles is empty.                                                     *)
(***************************************************************************)
C9_SignalPnlPositive ==
    /\ ~res.signal.none => res.signal.pnl[1] > 0 /\ res.signal.pnl[2] > 0
    /\ (res.call = "onMarketDataUpdate" /\ (res.stake <= 0 \/ pool = <<>>))
          => res.signal.none

\* onMarketDataUpdate returned a signal
C9_Witness ==
    /\ res.call = "onMarketDataUpdate"
    /\ ~res.signal.none
    /\ res.stake > 0

(***************************************************************************)
(* C10: full evaluation returns no signal when the notional (working price *)
(* x order quantity) of a leg is below the minimum notional that applies   *)
(* to market orders of the leg's symbol: each leg of a returned signal has *)
(* a notional of at least that minimum.                                    *)
(***************************************************************************)
MarketMinNotional(f) ==
    IF f.notional.minNotional > 0 \/ f.notional.maxNotional > 0
    THEN IF f.notional.applyMinToMarket THEN f.notional.minNotional ELSE 0
    ELSE IF f.minNotional.applyToMarket THEN f.minNotional.minNotional ELSE 0

C10_BelowMinNotionalRejected ==
    ~res.signal.none =>
        \A k \in 1 .. Len(res.signal.orders) :
            LET o == res.signal.orders[k]
                notional == RMul(o.price, o.qty) IN
            notional[1] * 1 >= MarketMinNotional(filters) * notional[2]

(***************************************************************************)
(* C11: when the fast ratio of a cycle is <= 1, the full evaluation of the *)
(* same cycle on the same cached quotes with a stake > 0 returns no        *)
(* signal.                                                                 *)
(***************************************************************************)
C11_FastScreenSound ==
    (/\ res.call = "evaluate"
     /\ res.stake > 0
     /\ RLe(GetFastRatio(pool[res.path], UpdatePrices(pool[res.path])),
            R(1)))
        => res.signal.none

\* C12: whatever roundQty / roundMarketQty is called with (a quantity
\* q >= 0 and a lot filter), the quantity r it returns is never above q and
\* is less than one step away from it.
C12_RoundsDownWithinStep ==
    rnd.call # "none" =>
        /\ RLe(rnd.r, rnd.qty)
        /\ RLt(RSub(rnd.qty, rnd.r), R(rnd.lot.stepSize))

\* C15: registration is idempotent and dense.  registerSymbol(s) of a
\* registered s returns the id s was first given and leaves the size
\* unchanged; a new string gets the number of symbols registered before it;
\* distinct strings hold distinct ids; getId(s) is the id registerSymbol(s)
\* returned and getSymbol(getId(s)) = s.
C15_RegistrationIdempotentDense ==
    /\ (rgRes.call = "registerSymbol" /\ ~rgRes.threw) =>
          /\ rgRes.known =>
                /\ rgRes.ret = firstId[rgRes.arg]
                /\ Len(idToSymbol) = rgRes.sizeBefore
          /\ ~rgRes.known =>
                /\ rgRes.ret = rgRes.sizeBefore
                /\ Len(idToSymbol) = rgRes.sizeBefore + 1
          /\ GetId(symbolToId, rgRes.arg) = rgRes.ret
          /\ GetSymbolResults(idToSymbol, GetId(symbolToId, rgRes.arg))
                = {rgRes.arg}
    /\ \A a \in DOMAIN symbolToId, b \in DOMAIN symbolToId :
          a # b => symbolToId[a] # symbolToId[b]
    /\ (rgRes.call = "getId" /\ rgRes.arg \in DOMAIN symbolToId) =>
          rgRes.ret = firstId[rgRes.arg]

\* a registered string other than the first is registered again
C15_Witness ==
    /\ rgRes.call = "registerSymbol"
    /\ rgRes.known
    /\ rgRes.ret = 1
    /\ Len(idToSymbol) = MAX_SYMBOLS

\* C16: across any sequence of registerSymbol, registerSymbols, getId,
\* getSymbol and clear, ids are stable and never reused: a registered
\* string always has the id it was first given, and no id is given to two
\* different strings.
C16_IdsStableNeverReused ==
    \A s \in DOMAIN symbolToId :
        /\ symbolToId[s] = firstId[s]
        /\ firstOwner[symbolToId[s]] = s

\* C17: registering a new symbol in a registry that holds MAX_SYMBOLS fails
\* with an error and leaves the registry unchanged; registering a
\* registered symbol at full capacity succeeds; every id returned is below
\* MAX_SYMBOLS.
C17_CapacityRespected ==
    /\ (rgRes.call = "registerSymbol" /\ rgRes.sizeBefore = MAX_SYMBOLS) =>
          /\ ~rgRes.known => (rgRes.threw /\ ~rgRes.changed)
          /\ rgRes.known =>
                (~rgRes.threw /\ rgRes.ret = symbolToId[rgRes.arg])
    /\ (rgRes.call = "registerSymbol" /\ ~rgRes.threw) =>
          rgRes.ret < MAX_SYMBOLS
    /\ (rgRes.call = "registerSymbols" /\ ~rgRes.threw) =>
          \A k \in 1 .. Len(rgRes.ret) : rgRes.ret[k] < MAX_SYMBOLS
    /\ (rgRes.call = "getId" /\ rgRes.arg \in DOMAIN symbolToId) =>
          rgRes.ret < MAX_SYMBOLS
    /\ Len(idToSymbol) <= MAX_SYMBOLS

\* a new string is refused by the full registry
C17_Witness ==
    /\ rgRes.call = "registerSymbol"
    /\ rgRes.sizeBefore = MAX_SYMBOLS
    /\ ~rgRes.known
    /\ rgRes.threw

\* C13: every cycle computeArbitragePaths(symbols, A0, 3) produces closes:
\* the resulting asset of its last leg is A0, which is the starting asset
\* of its first leg.
C13_CycleClosure ==
    stratPaths.computed =>
        \A k \in DOMAIN stratPaths.paths :
            LET orders == stratPaths.paths[k].orders IN
            /\ Len(orders) = ArbitrageDepth
            /\ GetResultingAsset(orders[Len(orders)]) = startingAsset
            /\ GetStartingAsset(orders[1]) = startingAsset

\* both directions round the triangle are found
C13_Witness ==
    /\ stratPaths.computed
    /\ Len(stratPaths.paths) = 2
    /\ startingAsset = "B"

\* C14: within every enumerated cycle the symbol ids of the three legs are
\* pairwise distinct.
C14_SymbolsDistinct ==
    stratPaths.computed =>
        \A k \in DOMAIN stratPaths.paths :
            LET ids == stratPaths.paths[k].symbolIds IN
            \A i \in DOMAIN ids, j \in DOMAIN ids : i # j => ids[i] # ids[j]

\* cycles are found in a list that has a symbol to come back to the
\* starting asset at once
C14_Witness ==
    /\ stratPaths.computed
    /\ Len(stratPaths.paths) > 0
    /\ startingAsset = "A"
    /\ \E k \in DOMAIN symbolsList :
          symbolsList[k].base = symbolsList[k].quote

\* C18: no wake-up is lost, whichever wait is used.  Once update(id, ..)
\* has set bit id, a consumer that keeps calling a wait gets a bitmap with
\* bit id without any further update; and a consumer does not stay asleep
\* while the shared bitmap is non-empty.
C18_NoLostWakeup ==
    /\ \A id \in SymIds :
          (id \in updatedBits) ~> (id \in received /\ id \notin updatedBits)
    /\ (cpc = "sleeping" /\ updatedBits # {}) ~> (cpc # "sleeping")

\* a bit is set while the atomic flag is down (the consumer cleared it
\* between the writer's store and the writer's locked section) and the
\* consumer is in the spin loop, which looks at the flag only
C18_Witness ==
    /\ cpc = "spin"
    /\ updatedBits # {}
    /\ hasUpdates
    /\ ~hasUpdatesAtomic
    /\ wpc = "idle"

\* C19: in every polling mode the loop of run() checks the shutdown flag on
\* each iteration and never waits without bound: once requestShutdown() has
\* been called, run() leaves the loop, even if no update arrives any more.
C19_ShutdownLeavesLoop ==
    (shutdownRequested /\ runpc # "created") ~> (runpc \in Exited)

\* C20: with a zero balance of the starting asset at initialization,
\* initialize() completes and run() keeps iterating on market-data updates
\* rather than terminating.
C20_ZeroBalanceKeepsRunning ==
    (runpc # "created" /\ balance = 0) => runpc # "exitedNoBalance"

\* C21: with live mode disabled the executor runs the same state machine
\* and never needs a rollback: every order submitted is reported Filled
\* with the requested quantity at the estimated price, only legs are
\* submitted (executeRollback is never entered, no sequence fails), and a
\* sequence is complete after exactly three submissions.
C21_TestModeNeverRollsBack ==
    ~liveMode =>
        /\ \A i \in DOMAIN sent : sent[i].kind = "leg"
        /\ epc \notin {"rb_send", "rb_handle", "rb_loop", "stopped"}
        /\ outcome \in {"none", "Completed"}
        /\ ord.id # 0 =>
              /\ ord.status = "FILLED"
              /\ ord.cumQty = ord.orderQty
              /\ ord.orderQty = sent[Len(sent)].qty
              /\ ord.avgPx = sent[Len(sent)].px
        /\ \A k \in DOMAIN legRes :
              /\ legRes[k].st = "FILLED"
              /\ legRes[k].cum = sent[k].qty
              /\ legRes[k].px = sent[k].px
        /\ Len(sent) <= 3
        /\ (epc = "pnl" \/ outcome = "Completed") => Len(sent) = 3
        /\ (epc \in {"send", "wait_check", "wait_block", "leg_handle"}) =>
              Len(sent) = legIndex + (IF epc = "send" THEN 0 ELSE 1)

\* a sequence run in test mode has completed
C21_Witness ==
    /\ ~liveMode
    /\ outcome = "Completed"
    /\ Len(sent) = 3
    /\ Len(legRes) = 3

\* the updates of `h` a drain has to return: for each symbol pushed, the
\* update pushed last
Latest(h, y) ==
    h[CHOOSE i \in DOMAIN h :
        /\ h[i].symbol = y
        /\ \A j \in DOMAIN h : h[j].symbol = y => j <= i]

SymbolsOf(h) == {h[i].symbol : i \in DOMAIN h}

\* C22: the coalescing buffer keeps only the latest update per symbol.
\* Whatever the interleaving of pushes and drains, drainAll returns exactly
\* one entry for each symbol pushed since the previous drain, holding the
\* data pushed last for it; the buffer is empty after a drain; and, between
\* operations, hasUpdates() is true exactly when a push has not been
\* drained yet.
C22_LatestPerSymbol ==
    /\ drained.call = "drainAll" =>
          /\ Len(drained.out) = Cardinality(SymbolsOf(drained.since))
          /\ \A y \in SymbolsOf(drained.since) :
                \E i \in DOMAIN drained.out :
                    /\ drained.out[i] = Latest(drained.since, y)
                    /\ \A j \in DOMAIN drained.out :
                          drained.out[j].symbol = y => j = i
    /\ dpc = "flag" => pending_ = EmptyPending
    /\ mutex_ = "free" => (HasUpdates <=> pushed # <<>>)

\* drainAll after a symbol was pushed twice with different data, and a
\* push since
C22_Witness ==
    /\ drained.call = "drainAll"
    /\ Len(drained.since) = 2
    /\ Len(drained.out) = 1
    /\ drained.since[1] # drained.since[2]
    /\ pushed # <<>>

\* the rollback orders submitted for leg y
RbOf(y) == {i \in DOMAIN RbSent : RbSent[i].sym = y}

\* C23: every rollback order is for the symbol of an executed leg, on the
\* opposite side, for the quantity that leg actually filled; an executed
\* leg gets at most one retry, so at most two rollback orders; and a retry
\* is made only after the attempt before it did not succeed.
C23_RollbackOrders ==
    /\ [](\A i \in DOMAIN RbSent :
            \E k \in DOMAIN executedOrders :
                LET e == executedOrders[k] IN
                /\ RbSent[i].sym = e.sym
                /\ e.side = sig[e.sym]
                /\ RbSent[i].side \in Sides \ {e.side}
                /\ e.sym \in DOMAIN legRes
                /\ RbSent[i].qty = legRes[e.sym].cum
                /\ RbSent[i].qty = e.filledQty)
    /\ [](\A y \in 1 .. 3 :
            Cardinality(RbOf(y)) <= MAX_ROLLBACK_RETRIES + 1)
    /\ [][(epc = "rb_loop" /\ epc' = "rb_send" /\ rbPos' = rbPos) =>
            (status # "FILLED" /\ ~curGood /\ retryCount = 1)]_vars

\* the rollback of leg 1 was submitted twice, then that of no other leg
C23_Witness ==
    /\ epc = "stopped"
    /\ Len(RbSent) = 2
    /\ RbSent[1].sym = 1 /\ RbSent[2].sym = 1
    /\ RbSent[1].id # RbSent[2].id

\* C24: after a failed sequence (rolled back or compromised) the
\* orchestrator does not enter a new sequence: run() has left its loop, no
\* signal is taken and no further order is submitted.
C24_NoSequenceAfterFailure ==
    [][(outcome \in {"RolledBack", "Compromised"}) =>
          (/\ epc' = "stopped"
           /\ outcome' = outcome
           /\ sent' = sent
           /\ nSignals' = nSignals
           /\ orderIdCounter' = orderIdCounter
           /\ sequenceCounter' = sequenceCounter)]_vars

\* a sequence ended compromised while a further signal could be taken
C24_Witness ==
    /\ outcome = "Compromised"
    /\ epc = "stopped"
    /\ nSignals < MaxSignals
    /\ Len(RbSent) >= 2

\* C25: consumption is atomic with respect to the producers.  An update
\* sets the bit of its symbol before it returns, and a bit leaves the
\* shared bitmap only in a step that returns it to the consumer: a bit is
\* never erased without being returned, whichever of the three waits or
\* consumeUpdates takes the snapshot and however updates interleave.
C25_ConsumptionAtomic ==
    [][/\ (wpc = "publish" /\ wpc' # wpc) => wid \in updatedBits'
       /\ \A id \in SymIds :
             (id \in updatedBits /\ id \notin updatedBits') =>
                 \/ (cpc' = "returned" /\ received' = updatedBits)
                 \/ (cpc' = cpc /\ lastBits' = updatedBits)]_vars

\* a wait handed the consumer the bit of one symbol while the update of
\* another was between its store to the slot and its locked section
C25_Witness ==
    /\ cpc = "returned"
    /\ received = {0}
    /\ updatedBits = {}
    /\ wpc = "publish" /\ wid = 1

\* C26: after update(id, bid, ask) has written, slot id holds bid if bid
\* is non-zero and the bid it held before otherwise, and likewise for ask;
\* the pairs and the sequence counters of all other slots are unchanged.
C26_UpdateFrame ==
    /\ [](wpc \in {"flag", "publish", "notify"} =>
            /\ wbid # 0 => bidv[wid] = wbid
            /\ wask # 0 => askv[wid] = wask)
    /\ [][\A i \in SymIds :
            /\ bidv'[i] # bidv[i] => (i = wid /\ wbid # 0 /\ bidv'[i] = wbid)
            /\ askv'[i] # askv[i] => (i = wid /\ wask # 0 /\ askv'[i] = wask)
            /\ seqn'[i] # seqn[i] => i = wid]_vars

\* an ask-only update of slot 0 has written; the slot keeps the bid of an
\* earlier update
C26_Witness ==
    /\ wpc = "flag"
    /\ wid = 0 /\ wbid = 0 /\ wask = MaxPx
    /\ bidv[0] = 1 /\ askv[0] = MaxPx

\* what the last call of onMarketDataUpdate had to choose from: the full
\* evaluation of cycle i, the cycles with an updated symbol, and those of
\* them that pass the fast screen and yield a signal
PathSignal(i) == Evaluate(pool[i], UpdatePrices(pool[i]), res.stake)

AffectedSet ==
    {i \in DOMAIN pool :
        \E leg \in 1 .. 3 : pool[i].syms[leg] \in res.updatedSymbols}

Candidates ==
    {i \in AffectedSet :
        /\ RLt(MinProfitRatio, GetFastRatio(pool[i], UpdatePrices(pool[i])))
        /\ ~PathSignal(i).none}

BestCandidates ==
    {i \in Candidates :
        \A j \in Candidates : RLe(PathSignal(j).pnl, PathSignal(i).pnl)}

\* C28: when several affected cycles yield signals of the same, greatest
\* pnl, the signal returned is that of the cycle with the smallest index.
C28_TieSmallestIndex ==
    (res.call = "onMarketDataUpdate" /\ ~res.signal.none) =>
        \E i \in BestCandidates :
            /\ res.signal = PathSignal(i)
            /\ \A j \in BestCandidates : i <= j

\* the order that trades asset `coin` away on `symbol`: a sale when the
\* asset is the base, a purchase when it is the quote
OrderConsuming(coin, symbol) ==
    [symbol |-> symbol, way |-> IF coin = symbol.base THEN "SELL" ELSE "BUY"]

\* what an order of that kind yields
Yields(coin, symbol) ==
    IF coin = symbol.base THEN symbol.quote ELSE symbol.base

\* the three-leg cycles of a list from asset `start`
CyclesOf(list, start) ==
    LET S == {list[k] : k \in DOMAIN list}
        Has(symbol, coin) == coin \in {symbol.base, symbol.quote} IN
    {<<OrderConsuming(start, s1),
       OrderConsuming(Yields(start, s1), s2),
       OrderConsuming(Yields(Yields(start, s1), s2), s3)>> :
        <<s1, s2, s3>> \in
            {t \in S \X S \X S :
                /\ t[1] # t[2] /\ t[1] # t[3] /\ t[2] # t[3]
                /\ Has(t[1], start)
                /\ Has(t[2], Yields(start, t[1]))
                /\ Has(t[3], Yields(Yields(start, t[1]), t[2]))
                /\ Yields(Yields(Yields(start, t[1]), t[2]), t[3]) = start}}

\* C29: computeArbitragePaths(symbols, A0, 3) returns exactly the
\* three-leg paths over pairwise distinct symbols whose first order consumes
\* A0, whose every leg consumes the asset the leg before it yields and whose
\* last leg yields A0, each of them once and nothing else; an order sells
\* when the asset it consumes is the base of its symbol and buys when it is
\* the quote.
C29_ExactlyTheCycles ==
    /\ (stratPaths.computed /\ ~stratPaths.threw) =>
          LET found == [k \in DOMAIN stratPaths.paths |->
                           stratPaths.paths[k].orders] IN
          /\ {found[k] : k \in DOMAIN found} =
                CyclesOf(symbolsList, startingAsset)
          /\ \A i, j \in DOMAIN found : found[i] = found[j] => i = j
    \* and on the six symbols of four assets: six cycles from A
    /\ {PoolOrderPaths[k] : k \in DOMAIN PoolOrderPaths} =
          CyclesOf(PoolSymbols, "A")
    /\ Len(PoolOrderPaths) = Cardinality(CyclesOf(PoolSymbols, "A"))
    /\ Len(PoolOrderPaths) = 6

\* both directions round the triangle are found from C in a list that also
\* holds the pair of an asset with itself
C29_Witness ==
    /\ stratPaths.computed /\ ~stratPaths.threw
    /\ startingAsset = "C"
    /\ Len(symbolsList) = 4
    /\ Len(stratPaths.paths) = 2
    /\ stratPaths.paths[1].orders[1].way # stratPaths.paths[2].orders[1].way

\* C30: without rounding (no filter on any symbol) and with valid quotes
\* on all three legs, the full evaluation applies to each leg the fee
\* multiplier of that leg's own symbol, whatever the fees of the symbols
\* are: its pnl is stake * fastRatio - stake, fastRatio being the product
\* of the three price multipliers and the three fee multipliers of the fast
\* screen (and a signal is returned when that pnl is positive).
C30_PerLegFees ==
    (/\ res.call = "evaluate"
     /\ res.stake > 0
     /\ filters = NoFilters
     /\ \A leg \in 1 .. 3 :
           /\ quotes[pool[res.path].syms[leg]].bid > 0
           /\ quotes[pool[res.path].syms[leg]].ask > 0)
        => LET p == pool[res.path]
               ratio == GetFastRatio(p, UpdatePrices(p))
               expected == RSub(RMul(R(res.stake), ratio), R(res.stake)) IN
           IF RLt(R(0), expected)
           THEN ~res.signal.none /\ res.signal.pnl = expected
           ELSE res.signal.none

(***************************************************************************)
(* One writer whose k-th update leaves the pair (k, k), one reader calling *)
(* consumeUpdates() and get(): the pair a get() returns names the write it *)
(* was left by.                                                            *)
(***************************************************************************)
ReaderStep ==
    \/ GetLoad1
    \/ \E f \in Fields : GetRead(f)
    \/ GetLoad2
    \/ GetReturn

NextOrder ==
    \/ \E id \in SymIds : UpdateCall(id, wcount + 1, wcount + 1)
    \/ WriterStep
    \/ \E id \in SymIds : GetCall(id)
    \/ ReaderStep
    \/ ConsumeUpdates

SpecOrder == InitOB /\ [][NextOrder]_vars

\* C31: with the writes W1, W2, ... of one writer, a get(id) that is about
\* to return holds the pair some write left (W0 being the initial pair),
\* and that write is not older than the one whose pair the previous get(id)
\* of the same slot returned.
C31_ProgramOrder ==
    rpc = "ret" =>
        /\ rres.bid = rres.ask
        /\ rres.bid >= observed[rid][1]

\* C32: once consumeUpdates() has handed the reader a bitmap with bit i set,
\* a get(i) that is about to return holds the pair left by the write that
\* set that bit or by a later write to slot i.
C32_NotOlderThanBit ==
    (rpc = "ret" /\ rid \in lastBits) =>
        /\ rres.bid = rres.ask
        /\ rres.bid >= gotBy[rid]

\* the reader thread is scheduled; nothing is asked of the writer, which may
\* stop anywhere, between its two stores of the sequence included
SpecOrderLive ==
    /\ InitOB /\ [][NextOrder]_vars
    /\ WF_vars(ReaderStep)

\* C33: a get(id) that has been called returns, the reader taking its own
\* steps, whatever the writer does or fails to do.
C33_GetReturns == (rpc # "idle") ~> (rpc = "idle")

(***************************************************************************)
(* The initialization thread at the snapshot barrier, the FIX thread       *)
(* handling snapshots of subscribed and of other symbols.                  *)
(***************************************************************************)
InitializationStep ==
    \/ WaitForAllSnapshots
    \/ SnapshotWaitWoken
    \/ InitializationComplete

NextFeed ==
    \/ \E symbols \in SUBSET SymIds : SubscribeToSymbols(symbols)
    \/ NoSubscription
    \/ InitializationStep
    \/ SnapshotSpuriousWake
    \/ SnapshotWaitTimesOut
    \/ \E symbol \in SymIds : OnSnapshot(symbol)
    \/ \E px \in {0, 1} : SnapshotUpdateBook(px, px)
    \/ WriterStep
    \/ SnapshotTrack
    \/ SnapshotNotify

\* the initialization thread is scheduled and the timeout of wait_for runs
\* out; nothing is asked of the market or of spurious wake-ups
SpecFeedLive ==
    /\ InitOB /\ [][NextFeed]_vars
    /\ WF_vars(InitializationStep)
    /\ WF_vars(SnapshotWaitTimesOut)

\* C34: waitForAllSnapshots returns true only with a snapshot received for
\* every expected symbol and false only when its timeout has run out with
\* one missing; the received set is always a subset of the expected set;
\* and once the symbols are subscribed the main loop is reached, whatever
\* the barrier returned.
C34_SnapshotBarrier ==
    /\ [](receivedSnapshots_ \subseteq expectedSymbols_)
    /\ []((npc \in {"returned", "running"} /\ success)
             => expectedSymbols_ \subseteq receivedSnapshots_)
    /\ [][(npc # "returned" /\ npc' = "returned")
             => (/\ success' = (expectedSymbols_ \subseteq receivedSnapshots_)
                 /\ (~success' => elapsed'))]_vars
    /\ ((npc = "subscribed") ~> (npc = "running"))

\* the barrier timed out on two expected symbols after the snapshot of one
\* of them had arrived more than once, and the main loop was entered
C34_Witness ==
    /\ npc = "running" /\ ~success /\ elapsed
    /\ expectedSymbols_ = {0, 1}
    /\ receivedSnapshots_ = {0}
    /\ hpc = "idle"
    /\ wcount = MaxUpdates

C36_FlagsAgree ==
    (wpc # "publish") => (hasUpdatesAtomic <=> hasUpdates)

\* C37: in a failed sequence every order whose entry held a cumulative
\* filled quantity above 0 when its leg was handled is in the executed
\* list, and once failure handling has ended an opposite-side rollback
\* order was submitted for it - also when its wait ended Rejected,
\* Canceled, Expired or Unknown after a partial fill.
C37_PartialFillsRolledBack ==
    (epc = "stopped" /\ outcome \in {"Failed", "RolledBack", "Compromised"})
        => \A k \in 1 .. Len(legRes) :
              legRes[k].hadFill =>
                  /\ \E i \in 1 .. Len(executedOrders) :
                        executedOrders[i].sym = k
                  /\ \E i \in 1 .. Len(RbSent) :
                        /\ RbSent[i].sym = k
                        /\ RbSent[i].side = RollbackSide(sig[k])

\* C38: when waitForOrderCompletion has returned, it returned the recorded
\* status of the order if that is terminal (Filled, Canceled, Rejected or
\* Expired), and Unknown only if the recorded status is not terminal; it
\* never returns a non-terminal status.
C38_UnknownOnlyIfNonTerminal ==
    (epc \in {"leg_handle", "rb_handle"}) =>
        /\ status \in Terminal \cup {"UNKNOWN"}
        /\ (ord.status \in Terminal) => status = ord.status
        /\ (status = "UNKNOWN") => ord.status \notin Terminal

\* C39: hasUpdates_ is true exactly when the update bitmap has a bit set
\* (in every state: the mutex is held within single steps only); a wait
\* that returns hands back a non-empty bitmap, except a timed wait whose
\* timeout ran out with no update pending: waitForUpdates and
\* waitForUpdatesSpin never return an empty bitmap.
C39_FlagIffBits ==
    /\ [](hasUpdates <=> (updatedBits # {}))
    /\ [][(ConsumerStep /\ cpc' = "returned" /\ received' = {}) =>
            (/\ ctimed
             /\ cpc \in {"sleeping", "woken"}
             /\ ~hasUpdates
             /\ updatedBits = {})]_vars

\* a timed wait ran out of time and returned an empty bitmap while an
\* update had raised the atomic flag and not yet set its bit
C39_Witness ==
    /\ cpc = "returned" /\ ctimed
    /\ received = {}
    /\ wpc = "publish"
    /\ hasUpdatesAtomic /\ ~hasUpdates

(***************************************************************************)
(* The ingest thread making full, partial and empty updates, the main      *)
(* thread in its waits.                                                    *)
(***************************************************************************)
NextCounter ==
    \/ \E id \in SymIds, bid \in {0, 1}, ask \in {0, 1} :
          UpdateCall(id, bid, ask)
    \/ WriterStep
    \/ ConsumerStep
    \/ SpuriousWake

SpecCounter == InitWait /\ [][NextCounter]_vars

\* C40: the sequence counter of a slot never decreases and changes only
\* inside an update() of that slot; it is even unless an update() of the
\* slot stands between its two stores; an update() with a non-zero
\* component reads the counter when called and has left it 2 higher from
\* its second store on; update(id, 0, 0) changes neither counters nor
\* pairs, sets no bit, raises neither flag and wakes no waiter.
C40_SequenceCounter ==
    /\ [](\A i \in SymIds :
            (seqn[i] % 2 = 1) <=> (wpc = "write" /\ wid = i))
    /\ []((wpc \in {"flag", "publish", "notify"}) => seqn[wid] = wseq + 2)
    /\ [][/\ \A i \in SymIds : seqn'[i] >= seqn[i]
          /\ (seqn' # seqn) =>
                 (/\ wpc \in {"storeOdd", "write"}
                  /\ \A i \in SymIds \ {wid} : seqn'[i] = seqn[i])
          /\ (wpc = "idle" /\ wpc' = "storeOdd") => wseq' = seqn[wid']
          /\ (wcount' # wcount /\ wpc' = "idle") =>
                 (/\ seqn' = seqn /\ bidv' = bidv /\ askv' = askv
                  /\ updatedBits' = updatedBits
                  /\ hasUpdates' = hasUpdates
                  /\ hasUpdatesAtomic' = hasUpdatesAtomic
                  /\ cpc' = cpc)]_vars

\* after a bid-only update of slot 0 was consumed and the waiter went back
\* to sleep, an update (0, 0) was made: the counter is still 2, the waiter
\* still asleep
C40_Witness ==
    /\ wcount = 2 /\ wpc = "idle"
    /\ seqn[0] = 2 /\ seqn[1] = 0
    /\ bidv[0] = 1 /\ askv[0] = 0
    /\ cpc = "sleeping"
    /\ updatedBits = {}

====
